---- MODULE Spec2Model ----
(***************************************************************************)
(* Verification model of the incremental dependency resolution engine:    *)
(*   - WorkerPool            (services/workerPool.ts)                      *)
(*   - dependencySlice, loadDependency, loadInitialLevels                  *)
(*                           (store/dependencySlice.ts)                    *)
(*   - useDependencyAnalyzer (Redux hook and the queue-based hook)         *)
(***************************************************************************)
EXTENDS Integers, Sequences, FiniteSets, TLC

\* ------------------------------------------------------------------------
\* Bounds
\* ------------------------------------------------------------------------
\* number of messages sent to one fetch worker
MaxMessages == 3
\* number of workers the pool is constructed with (maxWorkers)
MaxWorkers == 2
\* number of fetchDependency calls explored
MaxTasks == 4
\* number of fetchDependency calls explored under fairness
MaxLiveTasks == 3

\* number of user operations (analyze, expand, toggle, reset) explored
MaxOps == 4
\* number of user operations on the queue-based hook explored
MaxClicks == 3

Workers == 1..MaxWorkers
TaskIds == 1..MaxTasks
NoWorker == 0

\* package names a pool task may carry (the pool only forwards them)
PoolPackages == {"left-pad"}

\* ------------------------------------------------------------------------
\* WorkerPool state
\* ------------------------------------------------------------------------
VARIABLES
  workers,           \* WorkerPool.workers
  availableWorkers,  \* WorkerPool.availableWorkers (array, used as a queue)
  taskQueue,         \* WorkerPool.taskQueue (array of task ids)
  activeRequests,    \* WorkerPool.activeRequests (keys of the Map)
  tasks,             \* id -> message of every task created so far
  nextId,            \* next fresh task id (ids are unique strings)
  inbox,             \* worker -> ids posted to it and not yet answered
  promise,           \* id -> state of the promise returned to the caller
  \* history (observation only, never read by the operations)
  posted,            \* ids in the order they were posted to a worker
  assigned,          \* id -> worker the id was posted to
  everQueued,        \* ids that were placed in taskQueue
  settles,           \* id -> number of resolve/reject calls on its promise
  cause,             \* id -> what settled it
  atTerminate,       \* ids in flight or queued when terminate() ran
  ignored,           \* ids whose response arrived while not in activeRequests
  terminated         \* terminate() has run

poolVars == <<workers, availableWorkers, taskQueue, activeRequests, tasks,
              nextId, inbox, promise, posted, assigned, everQueued, settles,
              cause, atTerminate, ignored, terminated>>

\* ------------------------------------------------------------------------
\* Redux store (dependencySlice) and the thunks running against it
\* ------------------------------------------------------------------------
VARIABLES
  nodes,                \* DependencyState.nodes: name -> DependencyNode
  rootPackage,          \* DependencyState.rootPackage ("null" for null)
  packageData,          \* DependencyState.packageData (NullPackage for null)
  loading,              \* DependencyState.loading
  error,                \* DependencyState.error ("null" for null)
  progress,             \* DependencyState.progress
  showDevDependencies,  \* DependencyState.showDevDependencies
  activeWorkers,        \* DependencyState.activeWorkers
  lazy,                 \* loadDependency thunks awaiting their fetch
  preloads,             \* loadInitialLevels thunks
  timers,               \* pending setTimeout(clearProgressMessage) callbacks
  ops,                  \* number of user operations so far
  \* history
  fetched,              \* name -> fetches dispatched for it in this session
  reported              \* name -> reason its last loadDependency fetch failed with

sliceVars == <<nodes, rootPackage, packageData, loading, error, progress,
               showDevDependencies, activeWorkers, lazy, preloads, timers, ops,
               fetched, reported>>

\* ------------------------------------------------------------------------
\* Queue-based hook (useDependencyAnalyzer with pendingDependencies)
\* ------------------------------------------------------------------------
VARIABLES
  hook,        \* the useState cells as last written
  render,      \* the cells as the callbacks of the last render closed over them
  requests,    \* loadSingleDependency calls awaiting fetchPackageJson
  expansions,  \* loadDependencies calls awaiting fetchPackageJson
  clicks,      \* number of user operations on the queue-based hook so far
  \* history
  generation,  \* number of analyzeDependencies and reset calls so far
  fetches      \* fetchPackageJson calls of loadSingleDependency in this generation

hookVars == <<hook, render, requests, expansions, clicks, generation, fetches>>

\* ---- npmService: one call of fetchPackageJson(packageName, version) ----
VARIABLES
  call,       \* the version argument and how far the call has got
  data,       \* what the registry holds for packageName while the call runs
  outcome,    \* what the call returned or threw
  \* history
  fetchCount  \* fetch() requests made by the call

npmVars == <<call, data, outcome, fetchCount>>

\* ---- dependencyWorker: the message handler of one fetch worker ----
VARIABLES
  handlers,  \* message id -> the run of self.onmessage for that message
  outbox     \* the responses posted with self.postMessage, in order

fetchWorkerVars == <<handlers, outbox>>

vars == <<poolVars, sliceVars, hookVars, npmVars, fetchWorkerVars>>

\* what the operations of one component leave alone
notPool == <<sliceVars, hookVars, npmVars, fetchWorkerVars>>
notSlice == <<poolVars, hookVars, npmVars, fetchWorkerVars>>
notHook == <<poolVars, sliceVars, npmVars, fetchWorkerVars>>
notNpm == <<poolVars, sliceVars, hookVars, fetchWorkerVars>>
notFetchWorker == <<poolVars, sliceVars, hookVars, npmVars>>

NoCause == [kind |-> "none", worker |-> NoWorker, type |-> "none"]
NoTask == 0
\* a promise: its state and, once settled, the value it was settled with
\* (payload kind, payload.packageName, id of the message the payload answers)
Unsettled == [state |-> "none", kind |-> "none", packageName |-> "", of |-> NoTask]

\* the WorkerMessage of a task: { id, type: 'FETCH_DEPENDENCY', payload }
WorkerMessage(id, packageName) ==
  [id |-> id, type |-> "FETCH_DEPENDENCY", packageName |-> packageName]

\* the WorkerResponse a worker posts for message m
WorkerResponse(m, type) ==
  [id |-> m.id, type |-> type,
   payload |-> [kind |-> IF type = "FETCH_SUCCESS" THEN "mainNode" ELSE "errorNode",
                packageName |-> m.packageName, of |-> m.id]]

\* the part of the state the private methods work on
PoolState ==
  [availableWorkers |-> availableWorkers, taskQueue |-> taskQueue,
   activeRequests |-> activeRequests, inbox |-> inbox, promise |-> promise,
   posted |-> posted, assigned |-> assigned, settles |-> settles,
   cause |-> cause]

Commit(s) ==
  /\ availableWorkers' = s.availableWorkers
  /\ taskQueue' = s.taskQueue
  /\ activeRequests' = s.activeRequests
  /\ inbox' = s.inbox
  /\ promise' = s.promise
  /\ posted' = s.posted
  /\ assigned' = s.assigned
  /\ settles' = s.settles
  /\ cause' = s.cause

\* worker.postMessage(task.message) together with activeRequests.set(id, task)
PostTo(s, worker, id) ==
  [s EXCEPT !.activeRequests = @ \cup {id},
            !.inbox[worker] = @ \cup {id},
            !.posted = Append(@, id),
            !.assigned[id] = worker]

processNextTask_lifo(s) ==
  IF Len(s.taskQueue) = 0 \/ Len(s.availableWorkers) = 0
  THEN s
  ELSE LET n == Len(s.taskQueue)
           task == s.taskQueue[n]
           worker == Head(s.availableWorkers)
       IN PostTo([s EXCEPT !.taskQueue = SubSeq(@, 1, n - 1),
                           !.availableWorkers = Tail(@)], worker, task)

processNextTask(s) ==
  IF Len(s.taskQueue) = 0 \/ Len(s.availableWorkers) = 0
  THEN s
  ELSE LET task == Head(s.taskQueue)
           worker == Head(s.availableWorkers)
       IN PostTo([s EXCEPT !.taskQueue = Tail(@),
                           !.availableWorkers = Tail(@)], worker, task)

\* task.resolve(payload) / task.reject(payload)
Settle(s, id, state, payload, why) ==
  [s EXCEPT !.promise[id] = IF @.state = "pending"
                            THEN [state |-> state, kind |-> payload.kind,
                                  packageName |-> payload.packageName,
                                  of |-> payload.of]
                            ELSE @,
            !.settles[id] = @ + 1,
            !.cause[id] = IF s.promise[id].state = "pending" THEN why ELSE @]

\* variant: the freed worker is returned but the queue is not looked at
handleWorkerMessage_noNext(s, worker, response) ==
  IF response.id \in s.activeRequests
  THEN LET s1 == [s EXCEPT !.activeRequests = @ \ {response.id}]
           s2 == Settle(s1, response.id,
                        IF response.type = "FETCH_SUCCESS" THEN "resolved" ELSE "rejected",
                        response.payload,
                        [kind |-> "response", worker |-> worker, type |-> response.type])
       IN [s2 EXCEPT !.availableWorkers = Append(@, worker)]
  ELSE s

\* variant: the answered task is left in activeRequests
handleWorkerMessage_noDelete(s, worker, response) ==
  IF response.id \in s.activeRequests
  THEN LET s2 == Settle(s, response.id,
                        IF response.type = "FETCH_SUCCESS" THEN "resolved" ELSE "rejected",
                        response.payload,
                        [kind |-> "response", worker |-> worker, type |-> response.type])
           s3 == [s2 EXCEPT !.availableWorkers = Append(@, worker)]
       IN processNextTask(s3)
  ELSE s

handleWorkerMessage(s, worker, response) ==
  IF response.id \in s.activeRequests
  THEN LET s1 == [s EXCEPT !.activeRequests = @ \ {response.id}]
           s2 == Settle(s1, response.id,
                        IF response.type = "FETCH_SUCCESS" THEN "resolved" ELSE "rejected",
                        response.payload,
                        [kind |-> "response", worker |-> worker, type |-> response.type])
           s3 == [s2 EXCEPT !.availableWorkers = Append(@, worker)]
       IN processNextTask(s3)
  ELSE s

SeqToSet(q) == {q[i] : i \in 1..Len(q)}

RECURSIVE RejectAll(_, _, _)
RejectAll(s, ids, worker) ==
  IF ids = {} THEN s
  ELSE LET id == CHOOSE x \in ids : TRUE
           s1 == Settle(s, id, "rejected", [kind |-> "workerError", packageName |-> "", of |-> NoTask],
                        [kind |-> "error", worker |-> worker, type |-> "error"])
       IN RejectAll([s1 EXCEPT !.activeRequests = @ \ {id}], ids \ {id}, worker)

\* variant: the worker is returned without looking whether it is idle
handleWorkerError_noCheck(s, worker) ==
  LET s1 == RejectAll(s, s.activeRequests, worker)
      s2 == [s1 EXCEPT !.availableWorkers = Append(@, worker)]
  IN processNextTask(s2)

handleWorkerError(s, worker) ==
  LET s1 == RejectAll(s, s.activeRequests, worker)
      s2 == IF worker \notin SeqToSet(s1.availableWorkers)
            THEN [s1 EXCEPT !.availableWorkers = Append(@, worker)]
            ELSE s1
  IN processNextTask(s2)

\* ------------------------------------------------------------------------
\* WorkerPool operations
\* ------------------------------------------------------------------------
RECURSIVE Iota(_)
Iota(n) == IF n = 0 THEN <<>> ELSE Append(Iota(n - 1), n)

InitPool ==
  /\ workers = Workers
  /\ availableWorkers = Iota(MaxWorkers)
  /\ taskQueue = <<>>
  /\ activeRequests = {}
  /\ tasks = [id \in TaskIds |-> WorkerMessage(id, "")]
  /\ nextId = 1
  /\ inbox = [w \in Workers |-> {}]
  /\ promise = [id \in TaskIds |-> Unsettled]
  /\ posted = <<>>
  /\ assigned = [id \in TaskIds |-> NoWorker]
  /\ everQueued = {}
  /\ settles = [id \in TaskIds |-> 0]
  /\ cause = [id \in TaskIds |-> NoCause]
  /\ atTerminate = {}
  /\ ignored = {}
  /\ terminated = FALSE

fetchDependency(packageName) ==
  /\ nextId <= MaxTasks
  /\ LET id == nextId
         s0 == [PoolState EXCEPT !.promise[id] =
                   [state |-> "pending", kind |-> "none", packageName |-> "", of |-> NoTask]]
     IN /\ nextId' = nextId + 1
        /\ tasks' = [tasks EXCEPT ![id] = WorkerMessage(id, packageName)]
        /\ IF Len(availableWorkers) > 0
           THEN /\ Commit(PostTo([s0 EXCEPT !.availableWorkers = Tail(@)],
                                 Head(availableWorkers), id))
                /\ UNCHANGED everQueued
           ELSE /\ Commit([s0 EXCEPT !.taskQueue = Append(@, id)])
                /\ everQueued' = everQueued \cup {id}
  /\ UNCHANGED <<workers, atTerminate, ignored, terminated>>
  /\ UNCHANGED notPool

\* worker w finishes the fetch of message id and posts its response, which
\* the main thread hands to handleWorkerMessage (worker.onmessage)
WorkerRespond(w, id, type) ==
  /\ w \in workers
  /\ id \in inbox[w]
  /\ Commit(handleWorkerMessage([PoolState EXCEPT !.inbox[w] = @ \ {id}], w,
                                WorkerResponse(tasks[id], type)))
  /\ ignored' = IF id \in activeRequests THEN ignored ELSE ignored \cup {id}
  /\ UNCHANGED <<workers, tasks, nextId, everQueued, atTerminate, terminated>>
  /\ UNCHANGED notPool

\* worker w raises an error event (worker.onerror); the fetch it was running,
\* if any, ends with the error and is never answered
WorkerError(w) ==
  /\ w \in workers
  /\ Commit(handleWorkerError([PoolState EXCEPT !.inbox[w] = {}], w))
  /\ UNCHANGED <<workers, tasks, nextId, everQueued, atTerminate, ignored, terminated>>
  /\ UNCHANGED notPool

\* variant: the queue is not discarded
terminate_keepQueue ==
  /\ workers' = {}
  /\ availableWorkers' = <<>>
  /\ activeRequests' = {}
  /\ inbox' = [w \in Workers |-> {}]
  /\ atTerminate' = atTerminate \cup {id \in TaskIds : promise[id].state = "pending"}
  /\ terminated' = TRUE
  /\ UNCHANGED <<taskQueue, tasks, nextId, promise, posted, assigned, everQueued,
                 settles, cause, ignored>>
  /\ UNCHANGED notPool

terminate ==
  /\ workers' = {}
  /\ availableWorkers' = <<>>
  /\ taskQueue' = <<>>
  /\ activeRequests' = {}
  /\ inbox' = [w \in Workers |-> {}]
  /\ atTerminate' = atTerminate \cup {id \in TaskIds : promise[id].state = "pending"}
  /\ terminated' = TRUE
  /\ UNCHANGED <<tasks, nextId, promise, posted, assigned, everQueued, settles,
                 cause, ignored>>
  /\ UNCHANGED notPool

getStats ==
  [totalWorkers |-> Cardinality(workers),
   availableWorkers |-> Len(availableWorkers),
   activeRequests |-> Cardinality(activeRequests),
   queuedTasks |-> Len(taskQueue)]

NextPool ==
  \/ \E p \in PoolPackages : fetchDependency(p)
  \/ \E w \in Workers, id \in TaskIds, type \in {"FETCH_SUCCESS", "FETCH_ERROR"} :
        WorkerRespond(w, id, type)
  \/ \E w \in Workers : WorkerError(w)
  \/ terminate


\* ------------------------------------------------------------------------
\* Packages: the root manifest pasted by the user and the registry
\* ------------------------------------------------------------------------
RootName == "app"
Names == {"app", "A", "B", "C", "E"}
\* key order of the dependency maps
Order == <<"app", "A", "B", "C", "E">>
Idx(n) == CHOOSE i \in 1..Len(Order) : Order[i] = n
\* last key of a non-empty dependency map
LastOf(S) == CHOOSE n \in S : \A o \in S : Idx(o) <= Idx(n)

NullPackage ==
  [name |-> "null", version |-> "", description |-> "",
   dependencies |-> {}, devDependencies |-> {}]

\* the package.json documents the user may submit
RootManifests ==
  {[name |-> RootName, version |-> "1.0.0", description |-> "manifest",
    dependencies |-> d[1], devDependencies |-> d[2]] :
      d \in {<<{"A"}, {}>>, <<{"A"}, {"C"}>>, <<{}, {"E"}>>}}

\* loadInitialLevelsCount: the application always takes the default
PreloadLevels == {2}

\* what the registry answers for a name: app -> A -> B -> C -> B, and B has
\* the dev dependency E; A also depends on a package named like the root;
\* E has a dev dependency and no regular one
Registry ==
  [n \in Names |->
     [version |-> "registry", description |-> "registry",
      dependencies |-> CASE n = "A" -> {"B", "app"}
                         [] n = "B" -> {"C"}
                         [] n = "C" -> {"B"}
                         [] OTHER -> {},
      devDependencies |-> CASE n = "B" -> {"E"}
                            [] n = "E" -> {"A"}
                            [] OTHER -> {}]]

Put(f, k, v) == [x \in (DOMAIN f) \cup {k} |-> IF x = k THEN v ELSE f[x]]
Restrict(f, S) == [x \in S |-> f[x]]
RemoveAt(q, i) == SubSeq(q, 1, i - 1) \o SubSeq(q, i + 1, Len(q))
Max(a, b) == IF a > b THEN a ELSE b

\* an unloaded child node, as setPackageData and the worker create it
StubNode(name) ==
  [name |-> name, version |-> "range", description |-> "undefined",
   dependencies |-> {}, devDependencies |-> {},
   loaded |-> FALSE, loading |-> FALSE, childrenLoaded |-> FALSE,
   hasNoDependencies |-> FALSE]

\* payload.mainNode of a FETCH_SUCCESS response
MainNode(name, showDevDeps) ==
  LET pkg == Registry[name]
      allChildDeps == pkg.dependencies \cup
                      (IF showDevDeps THEN pkg.devDependencies ELSE {})
  IN [name |-> name, version |-> pkg.version, description |-> pkg.description,
      dependencies |-> pkg.dependencies, devDependencies |-> pkg.devDependencies,
      loaded |-> TRUE, loading |-> FALSE, childrenLoaded |-> TRUE,
      hasNoDependencies |-> (allChildDeps = {})]

\* payload.childNodes of a FETCH_SUCCESS response
ChildNodes(name, showDevDeps) ==
  LET pkg == Registry[name]
      allChildDeps == pkg.dependencies \cup
                      (IF showDevDeps THEN pkg.devDependencies ELSE {})
  IN [d \in allChildDeps |-> StubNode(d)]

\* the reasons fetchPackageJson throws with (error.message), which the worker
\* reports in the error field of its FETCH_ERROR payload
FetchErrors == {"Package x not found", "Failed to fetch package x: 500"}
\* what workerPool.fetchDependency rejects with: a FETCH_ERROR payload carrying
\* one of these reasons, or Error('Worker error: ...') after an error event
Rejections == FetchErrors \cup {"workerError"}

\* the message the loadDependency thunk reads off a rejection: the pool
\* rejects with the FETCH_ERROR payload (not an Error) or with
\* Error('Worker error: ...') after a worker error event
ErrorMessage(why, fallback) ==
  IF why = "workerError" THEN "Worker error" ELSE fallback

\* the template `Failed to load: ${reason}`
FailedToLoad(reason) ==
  CASE reason = "Worker error" -> "Failed to load: Worker error"
    [] reason = "Package not found" -> "Failed to load: Package not found"
    [] reason = "Package x not found" -> "Failed to load: Package x not found"
    [] reason = "Failed to fetch package x: 500" ->
         "Failed to load: Failed to fetch package x: 500"

\* errorNode built in the catch of the loadDependency thunk
ErrorNode(name, version, why) ==
  [name |-> name, version |-> version,
   description |-> FailedToLoad(ErrorMessage(why, "Package not found")),
   dependencies |-> {}, devDependencies |-> {},
   loaded |-> TRUE, loading |-> FALSE, childrenLoaded |-> TRUE,
   hasNoDependencies |-> TRUE]

ZeroProgress == [current |-> 0, total |-> 0, level |-> 0, currentPackage |-> ""]

initialState ==
  [nodes |-> <<>>, rootPackage |-> "null", packageData |-> NullPackage,
   loading |-> FALSE, error |-> "null", progress |-> ZeroProgress,
   showDevDependencies |-> FALSE, activeWorkers |-> 0]

SliceState ==
  [nodes |-> nodes, rootPackage |-> rootPackage, packageData |-> packageData,
   loading |-> loading, error |-> error, progress |-> progress,
   showDevDependencies |-> showDevDependencies, activeWorkers |-> activeWorkers]

CommitSlice(st) ==
  /\ nodes' = st.nodes
  /\ rootPackage' = st.rootPackage
  /\ packageData' = st.packageData
  /\ loading' = st.loading
  /\ error' = st.error
  /\ progress' = st.progress
  /\ showDevDependencies' = st.showDevDependencies
  /\ activeWorkers' = st.activeWorkers

\* ------------------------------------------------------------------------
\* Reducers
\* ------------------------------------------------------------------------
\* variant: the children of the root are seeded without regard to the flag
setPackageData_allDev(st, payload) ==
  LET allDeps == payload.dependencies \cup payload.devDependencies
      rootNode ==
        [name |-> payload.name, version |-> payload.version,
         description |-> payload.description,
         dependencies |-> payload.dependencies,
         devDependencies |-> payload.devDependencies,
         loaded |-> TRUE, loading |-> FALSE, childrenLoaded |-> TRUE,
         hasNoDependencies |-> (allDeps = {})]
  IN [st EXCEPT !.packageData = payload,
                !.rootPackage = payload.name,
                !.nodes = [n \in {payload.name} \cup allDeps |->
                             IF n = payload.name THEN rootNode ELSE StubNode(n)]]

setPackageData(st, payload) ==
  LET deps == payload.dependencies
      devDeps == IF st.showDevDependencies THEN payload.devDependencies ELSE {}
      allDeps == deps \cup devDeps
      rootNode ==
        [name |-> payload.name, version |-> payload.version,
         description |-> payload.description,
         dependencies |-> payload.dependencies,
         devDependencies |-> payload.devDependencies,
         loaded |-> TRUE, loading |-> FALSE, childrenLoaded |-> TRUE,
         hasNoDependencies |-> (allDeps = {})]
  IN [st EXCEPT !.packageData = payload,
                !.rootPackage = payload.name,
                !.nodes = [n \in {payload.name} \cup allDeps |->
                             IF n = payload.name THEN rootNode ELSE StubNode(n)]]

setProgress(st, payload) == [st EXCEPT !.progress = payload]

incrementActiveWorkers(st) == [st EXCEPT !.activeWorkers = @ + 1]

decrementActiveWorkers(st) == [st EXCEPT !.activeWorkers = Max(0, @ - 1)]

setShowDevDependencies(st, payload) == [st EXCEPT !.showDevDependencies = payload]

\* variant: switching off keeps the root only
toggleDevDependencies_rootOnly(st) ==
  LET show == ~st.showDevDependencies
      marked ==
        [n \in DOMAIN st.nodes |->
           IF st.nodes[n].loaded
           THEN [st.nodes[n] EXCEPT
                   !.childrenLoaded = FALSE,
                   !.hasNoDependencies =
                      (Cardinality(st.nodes[n].dependencies)
                       + (IF show THEN Cardinality(st.nodes[n].devDependencies) ELSE 0)) = 0]
           ELSE st.nodes[n]]
      rootNode == st.packageData.name
      keepRoot == IF rootNode # "null" /\ rootNode \in DOMAIN marked
                  THEN {rootNode} ELSE {}
  IN [st EXCEPT !.showDevDependencies = show,
                !.nodes = IF show THEN marked
                          ELSE Restrict(marked, keepRoot)]

toggleDevDependencies(st) ==
  LET show == ~st.showDevDependencies
      marked ==
        [n \in DOMAIN st.nodes |->
           IF st.nodes[n].loaded
           THEN [st.nodes[n] EXCEPT
                   !.childrenLoaded = FALSE,
                   !.hasNoDependencies =
                      (Cardinality(st.nodes[n].dependencies)
                       + (IF show THEN Cardinality(st.nodes[n].devDependencies) ELSE 0)) = 0]
           ELSE st.nodes[n]]
      rootNode == st.packageData.name
      keepRoot == IF rootNode # "null" /\ rootNode \in DOMAIN marked
                  THEN {rootNode} ELSE {}
      keepDeps == {d \in DOMAIN marked :
                     \E n \in DOMAIN marked :
                        marked[n].loaded /\ d \in marked[n].dependencies}
  IN [st EXCEPT !.showDevDependencies = show,
                !.nodes = IF show THEN marked
                          ELSE Restrict(marked, keepRoot \cup keepDeps)]

clearProgressMessage(st) ==
  IF st.activeWorkers = 0 THEN [st EXCEPT !.progress = ZeroProgress] ELSE st

loadDependency_pending(st, arg) ==
  [st EXCEPT !.loading = TRUE,
             !.error = "null",
             !.activeWorkers = @ + 1,
             !.progress = [current |-> 0, total |-> 1, level |-> 1,
                           currentPackage |-> arg.packageName],
             !.nodes = IF arg.packageName \in DOMAIN @
                       THEN [@ EXCEPT ![arg.packageName].loading = TRUE]
                       ELSE @]

StopIfIdle(st) ==
  IF st.activeWorkers = 0
  THEN [st EXCEPT !.loading = FALSE, !.progress = ZeroProgress]
  ELSE st

\* variant: the child stubs are stored over the nodes already there
loadDependency_fulfilled_overwrite(st, payload) ==
  LET s1 == [st EXCEPT !.activeWorkers = Max(0, @ - 1)]
      s2 == [s1 EXCEPT !.nodes = Put(@, payload.mainNode.name, payload.mainNode)]
      s3 == [s2 EXCEPT !.nodes =
               [n \in (DOMAIN @) \cup (DOMAIN payload.childNodes) |->
                  IF n \in DOMAIN payload.childNodes THEN payload.childNodes[n]
                  ELSE @[n]]]
  IN StopIfIdle(s3)

loadDependency_fulfilled(st, payload) ==
  LET s1 == [st EXCEPT !.activeWorkers = Max(0, @ - 1)]
      s2 == [s1 EXCEPT !.nodes = Put(@, payload.mainNode.name, payload.mainNode)]
      s3 == [s2 EXCEPT !.nodes =
               [n \in (DOMAIN @) \cup (DOMAIN payload.childNodes) |->
                  IF n \in DOMAIN @ THEN @[n] ELSE payload.childNodes[n]]]
  IN StopIfIdle(s3)

loadDependency_rejected(st, payload) ==
  StopIfIdle([st EXCEPT !.nodes = Put(@, payload.packageName, payload.errorNode),
                        !.error = payload.error])

loadInitialLevels_pending(st) == [st EXCEPT !.loading = TRUE, !.error = "null"]

loadInitialLevels_fulfilled(st, payload) ==
  [st EXCEPT !.loading = FALSE,
             !.progress = [current |-> payload.totalProcessed,
                           total |-> payload.totalProcessed,
                           level |-> payload.completedLevels,
                           currentPackage |-> "Completed loading"]]

loadInitialLevels_rejected(st, payload) ==
  [st EXCEPT !.loading = FALSE, !.error = payload, !.progress = ZeroProgress]

\* ------------------------------------------------------------------------
\* loadInitialLevels (thunk) and the user operations of the Redux hook
\* ------------------------------------------------------------------------
Bump(f, S) == [n \in DOMAIN f |-> IF n \in S THEN f[n] + 1 ELSE f[n]]
NoFetches == [n \in Names |-> 0]
NoReports == [n \in Names |-> ""]

\* the level-2 names collected from the successful level-1 results
Level2Deps(t, l1) ==
  {dep \in Names :
     /\ \E d \in t.level1Deps :
          /\ l1[d] = "ok"
          /\ \/ dep \in Registry[d].dependencies
             \/ t.showDevDeps /\ dep \in Registry[d].devDependencies
     /\ dep \notin t.level1Deps
     /\ dep # t.root}

\* the thunk once every level-1 fetch has settled, up to its next await
AfterLevel1(st, t) ==
  LET level2 == Level2Deps(t, t.l1)
  IN IF t.maxLevel >= 2 /\ level2 # {}
     THEN [st |-> [st EXCEPT !.activeWorkers = @ + 2 * Cardinality(level2),
                             !.progress = [current |-> Cardinality(level2),
                                           total |-> Cardinality(level2),
                                           level |-> 2,
                                           currentPackage |-> LastOf(level2)]],
           t |-> [t EXCEPT !.stage = "l2", !.level2 = level2,
                           !.l2 = [d \in level2 |-> "wait"]],
           dispatched |-> level2, timer |-> 0]
     ELSE [st |-> loadInitialLevels_fulfilled(st,
                    [completedLevels |-> t.maxLevel, totalProcessed |-> t.totalProcessed]),
           t |-> [t EXCEPT !.stage = "done"],
           dispatched |-> {}, timer |-> 1]

\* the thunk once every level-2 fetch has settled: the assignment to
\* state.activeWorkers (line 306) sets a property of the root state object
\* that getState() returned at the start of the thunk ({dependencies: ...},
\* a plain object that no reducer reads again), so the store is unaffected
AfterLevel2(st, t) ==
  loadInitialLevels_fulfilled(st,
    [completedLevels |-> t.maxLevel, totalProcessed |-> t.totalProcessed])

InitSlice ==
  /\ nodes = initialState.nodes
  /\ rootPackage = initialState.rootPackage
  /\ packageData = initialState.packageData
  /\ loading = initialState.loading
  /\ error = initialState.error
  /\ progress = initialState.progress
  /\ showDevDependencies = initialState.showDevDependencies
  /\ activeWorkers = initialState.activeWorkers
  /\ lazy = <<>>
  /\ preloads = <<>>
  /\ timers = 0
  /\ ops = 0
  /\ fetched = NoFetches
  /\ reported = NoReports

\* analyzeDependencies(packageJson, includeDevDeps, loadInitialLevelsCount)
analyzeDependencies(packageJson, includeDevDeps, loadInitialLevelsCount) ==
  /\ ops < MaxOps
  /\ packageData = NullPackage   \* the input form is rendered only then
  /\ ops' = ops + 1
  /\ LET s1 == setPackageData(setShowDevDependencies(SliceState, includeDevDeps),
                              packageJson)
         level1Deps == packageJson.dependencies \cup
                       (IF includeDevDeps THEN packageJson.devDependencies ELSE {})
         t0 == [stage |-> "l1", root |-> packageJson.name,
                showDevDeps |-> includeDevDeps, maxLevel |-> loadInitialLevelsCount,
                level1Deps |-> level1Deps,
                l1 |-> [d \in level1Deps |-> "wait"],
                level2 |-> {}, l2 |-> <<>>, totalProcessed |-> 0]
     IN IF loadInitialLevelsCount > 0
        THEN LET s2 == loadInitialLevels_pending(s1)
             IN IF level1Deps = {}
                THEN /\ CommitSlice(loadInitialLevels_fulfilled(s2,
                            [completedLevels |-> 0, totalProcessed |-> 0]))
                     /\ timers' = timers + 1
                     /\ fetched' = NoFetches
                     /\ reported' = NoReports
                     /\ UNCHANGED preloads
                ELSE /\ CommitSlice(setProgress(s2,
                            [current |-> Cardinality(level1Deps),
                             total |-> Cardinality(level1Deps),
                             level |-> 1,
                             currentPackage |-> LastOf(level1Deps)]))
                     /\ preloads' = Append(preloads, t0)
                     /\ fetched' = Bump(NoFetches, level1Deps)
                     /\ reported' = NoReports
                     /\ UNCHANGED timers
        ELSE /\ CommitSlice(s1)
             /\ fetched' = NoFetches
             /\ reported' = NoReports
             /\ UNCHANGED <<preloads, timers>>
  /\ UNCHANGED lazy
  /\ UNCHANGED notSlice

\* a level-1 fetch of preload thunk i settles
Level1Settled(i, dep, ok) ==
  /\ i \in 1..Len(preloads)
  /\ preloads[i].stage = "l1"
  /\ dep \in preloads[i].level1Deps
  /\ preloads[i].l1[dep] = "wait"
  /\ LET t1 == [preloads[i] EXCEPT !.l1[dep] = IF ok THEN "ok" ELSE "fail",
                                   !.totalProcessed = IF ok THEN @ + 1 ELSE @]
     IN IF \E d \in t1.level1Deps : t1.l1[d] = "wait"
        THEN /\ preloads' = [preloads EXCEPT ![i] = t1]
             /\ UNCHANGED <<nodes, rootPackage, packageData, loading, error, progress,
                            showDevDependencies, activeWorkers, timers, fetched, reported>>
        ELSE LET r == AfterLevel1(SliceState, t1)
             IN /\ CommitSlice(r.st)
                /\ preloads' = IF r.t.stage = "done" THEN RemoveAt(preloads, i)
                               ELSE [preloads EXCEPT ![i] = r.t]
                /\ timers' = timers + r.timer
                /\ fetched' = Bump(fetched, r.dispatched)
                /\ UNCHANGED reported
  /\ UNCHANGED <<lazy, ops>>
  /\ UNCHANGED notSlice

\* a level-2 fetch of preload thunk i settles
Level2Settled(i, dep, ok) ==
  /\ i \in 1..Len(preloads)
  /\ preloads[i].stage = "l2"
  /\ dep \in preloads[i].level2
  /\ preloads[i].l2[dep] = "wait"
  /\ LET t1 == [preloads[i] EXCEPT !.l2[dep] = IF ok THEN "ok" ELSE "fail",
                                   !.totalProcessed = IF ok THEN @ + 1 ELSE @]
         s1 == decrementActiveWorkers(decrementActiveWorkers(SliceState))
     IN IF \E d \in t1.level2 : t1.l2[d] = "wait"
        THEN /\ preloads' = [preloads EXCEPT ![i] = t1]
             /\ CommitSlice(s1)
             /\ UNCHANGED timers
        ELSE /\ CommitSlice(AfterLevel2(s1, t1))
             /\ preloads' = RemoveAt(preloads, i)
             /\ timers' = timers + 1
  /\ UNCHANGED <<lazy, ops, fetched, reported>>
  /\ UNCHANGED notSlice

\* the setTimeout of the thunk's finally block fires
ClearProgressTimer ==
  /\ timers > 0
  /\ timers' = timers - 1
  /\ CommitSlice(clearProgressMessage(SliceState))
  /\ UNCHANGED <<lazy, preloads, ops, fetched, reported>>
  /\ UNCHANGED notSlice

\* loadPackageDependencies(packageName) of the hook: a click on a node
loadPackageDependencies(packageName) ==
  /\ ops < MaxOps
  /\ packageData # NullPackage   \* the tree is rendered only then
  /\ IF \/ packageName \notin DOMAIN nodes
        \/ nodes[packageName].childrenLoaded
        \/ nodes[packageName].loading
     THEN UNCHANGED <<nodes, rootPackage, packageData, loading, error, progress,
                      showDevDependencies, activeWorkers, lazy, fetched, reported, ops>>
     ELSE LET arg == [packageName |-> packageName,
                      version |-> nodes[packageName].version,
                      showDevDeps |-> showDevDependencies]
          IN /\ CommitSlice(loadDependency_pending(SliceState, arg))
             /\ lazy' = Append(lazy, arg)
             /\ fetched' = Bump(fetched, {packageName})
             /\ UNCHANGED reported
             /\ ops' = ops + 1
  /\ UNCHANGED <<preloads, timers>>
  /\ UNCHANGED notSlice

\* the fetch of loadDependency thunk i resolves: loadDependency.fulfilled
LoadDependencyFulfilled(i) ==
  /\ i \in 1..Len(lazy)
  /\ LET arg == lazy[i]
     IN CommitSlice(loadDependency_fulfilled(SliceState,
          [mainNode |-> MainNode(arg.packageName, arg.showDevDeps),
           childNodes |-> ChildNodes(arg.packageName, arg.showDevDeps),
           packageName |-> arg.packageName]))
  /\ lazy' = RemoveAt(lazy, i)
  /\ reported' = [reported EXCEPT ![lazy[i].packageName] = ""]
  /\ UNCHANGED <<preloads, timers, ops, fetched>>
  /\ UNCHANGED notSlice

\* the fetch of loadDependency thunk i rejects: loadDependency.rejected
LoadDependencyRejected(i, why) ==
  /\ i \in 1..Len(lazy)
  /\ LET arg == lazy[i]
     IN CommitSlice(loadDependency_rejected(SliceState,
          [errorNode |-> ErrorNode(arg.packageName, arg.version, why),
           packageName |-> arg.packageName,
           error |-> ErrorMessage(why, "Unknown error")]))
  /\ lazy' = RemoveAt(lazy, i)
  /\ reported' = [reported EXCEPT ![lazy[i].packageName] = ErrorMessage(why, why)]
  /\ UNCHANGED <<preloads, timers, ops, fetched>>
  /\ UNCHANGED notSlice

\* handleToggleDevDependencies of the hook
ToggleDevDependencies ==
  /\ ops < MaxOps
  /\ packageData # NullPackage   \* the checkbox is rendered only then
  /\ ops' = ops + 1
  /\ CommitSlice(toggleDevDependencies(SliceState))
  /\ UNCHANGED <<lazy, preloads, timers, fetched, reported>>
  /\ UNCHANGED notSlice

\* handleReset of the hook: reset: () => initialState
reset ==
  /\ ops < MaxOps
  /\ packageData # NullPackage   \* the button is rendered only then
  /\ ops' = ops + 1
  /\ CommitSlice(initialState)
  /\ fetched' = NoFetches
  /\ reported' = NoReports
  /\ UNCHANGED <<lazy, preloads, timers>>
  /\ UNCHANGED notSlice

NextSlice ==
  \/ \E m \in RootManifests, dev \in BOOLEAN, levels \in PreloadLevels :
        analyzeDependencies(m, dev, levels)
  \/ \E i \in 1..MaxOps, dep \in Names, ok \in BOOLEAN : Level1Settled(i, dep, ok)
  \/ \E i \in 1..MaxOps, dep \in Names, ok \in BOOLEAN : Level2Settled(i, dep, ok)
  \/ ClearProgressTimer
  \/ \E n \in Names : loadPackageDependencies(n)
  \/ \E i \in 1..MaxOps : LoadDependencyFulfilled(i)
  \/ \E i \in 1..MaxOps, why \in Rejections :
        LoadDependencyRejected(i, why)
  \/ ToggleDevDependencies
  \/ reset

\* ------------------------------------------------------------------------
\* The queue-based hook: useDependencyAnalyzer with pendingDependencies
\* ------------------------------------------------------------------------
MAX_CONCURRENT_REQUESTS == 15
MAX_DEPENDENCY_LEVELS == 3

\* the version specifier every dependency map of the registry uses
Specifier == "range"
\* requestId / depId / workerId: `${name}@${version}`
RequestId(name, version) == <<name, version>>

\* Object.keys / Object.entries of a dependency map, in key order
Entries(S) ==
  [i \in 1..Cardinality(S) |->
     CHOOSE x \in S : Cardinality({y \in S : Idx(y) < Idx(x)}) = i - 1]

\* the useState cells right after the hook is mounted
hookInitial ==
  [packageData |-> NullPackage, dependencies |-> <<>>, loading |-> FALSE,
   error |-> "null", progress |-> ZeroProgress, showDevDependencies |-> FALSE,
   activeRequests |-> 0, pendingDependencies |-> <<>>,
   completedDependencies |-> {}, totalDependenciesToLoad |-> 0,
   allDiscoveredDependencies |-> {}]

PendingNames(r) ==
  {r.pendingDependencies[i].name : i \in DOMAIN r.pendingDependencies}

\* the values the loadSingleDependency callback of render r closes over
Closure(r) ==
  [completedDependencies |-> r.completedDependencies,
   pendingNames |-> PendingNames(r),
   dependencyNames |-> DOMAIN r.dependencies,
   showDevDependencies |-> r.showDevDependencies]

\* loadSingleDependency up to its await: the call made by render r's callback
loadSingleDependency(acc, r, item) ==
  IF RequestId(item.name, item.version) \in r.completedDependencies
    THEN acc
    ELSE [st |-> [acc.st EXCEPT !.activeRequests = @ + 1],
          started |-> Append(acc.started,
                             [name |-> item.name, version |-> item.version,
                              level |-> item.level, closure |-> Closure(r)])]

RECURSIVE ForEachToProcess(_, _, _, _)
ForEachToProcess(acc, r, toProcess, i) ==
  IF i > Len(toProcess) THEN acc
  ELSE ForEachToProcess(
         IF RequestId(toProcess[i].name, toProcess[i].version)
              \in r.completedDependencies
           THEN acc
           ELSE loadSingleDependency(acc, r, toProcess[i]),
         r, toProcess, i + 1)

Min(a, b) == IF a < b THEN a ELSE b

\* processPendingDependencies as the callback of render r, applied to the
\* current cells st; yields the new cells and the fetches it started
processPendingDependencies(st, r) ==
  IF r.activeRequests >= MAX_CONCURRENT_REQUESTS \/ r.pendingDependencies = <<>>
    THEN [st |-> st, started |-> <<>>]
    ELSE
      LET availableSlots == MAX_CONCURRENT_REQUESTS - r.activeRequests
          toProcess == SubSeq(r.pendingDependencies, 1,
                              Min(availableSlots, Len(r.pendingDependencies)))
          sliced == [st EXCEPT !.pendingDependencies =
                       SubSeq(@, Min(availableSlots, Len(@)) + 1, Len(@))]
      IN ForEachToProcess([st |-> sliced, started |-> <<>>], r, toProcess, 1)

\* names reachable from the root through the regular dependencies of the
\* nodes present in the map (the dfs of hasRegularDependencyPathInProgress)
RECURSIVE Visited(_, _, _)
Visited(r, S, k) ==
  IF k = 0 THEN S
  ELSE Visited(r,
               S \cup UNION {r.dependencies[n].dependencies :
                               n \in S \cap DOMAIN r.dependencies},
               k - 1)

hasRegularDependencyPathInProgress(r, targetName) ==
  /\ r.packageData # NullPackage
  /\ \E n \in Visited(r, {r.packageData.name}, Cardinality(Names))
                \cap DOMAIN r.dependencies :
        targetName \in r.dependencies[n].dependencies

MinLevel(q) == CHOOSE l \in {q[i].level : i \in DOMAIN q} :
                 \A i \in DOMAIN q : l <= q[i].level

\* the progress effect of render r
ProgressEffect(st, r) ==
  LET current == Cardinality(r.completedDependencies)
      total == IF r.showDevDependencies THEN r.totalDependenciesToLoad
               ELSE Cardinality({d \in r.allDiscoveredDependencies :
                                   hasRegularDependencyPathInProgress(r, d)})
      q == r.pendingDependencies
      s1 == IF total > 0
              THEN [st EXCEPT !.progress =
                      [current |-> current, total |-> total,
                       level |-> IF q # <<>> THEN MinLevel(q)
                                 ELSE MAX_DEPENDENCY_LEVELS,
                       currentPackage |-> IF q # <<>> THEN q[1].name ELSE ""]]
              ELSE st
  IN IF r.totalDependenciesToLoad > 0 /\ q = <<>> /\ r.activeRequests = 0
       THEN [s1 EXCEPT !.loading = FALSE, !.progress = ZeroProgress]
       ELSE s1

\* dependency arrays of the two effects
ProgressDeps(r) ==
  <<Cardinality(r.completedDependencies), r.totalDependenciesToLoad,
    Len(r.pendingDependencies), r.activeRequests, r.pendingDependencies>>
ProcessDeps(r) ==
  <<r.activeRequests, r.pendingDependencies, r.completedDependencies,
    r.dependencies, r.showDevDependencies>>

\* the successful continuation of loadSingleDependency
loadSingleDependency_then(st, q) ==
  LET pkg == Registry[q.name]
      c == q.closure
      dependencyNode ==
        [name |-> q.name, version |-> pkg.version,
         description |-> pkg.description,
         dependencies |-> pkg.dependencies,
         devDependencies |-> pkg.devDependencies,
         loaded |-> TRUE, loading |-> FALSE, childrenLoaded |-> FALSE,
         hasNoDependencies |-> (pkg.dependencies = {})]
      childDeps == Entries(pkg.dependencies) \o
                   (IF c.showDevDependencies THEN Entries(pkg.devDependencies)
                    ELSE <<>>)
      mapped == [i \in DOMAIN childDeps |->
                   [name |-> childDeps[i], version |-> Specifier,
                    level |-> q.level + 1]]
      Fresh(dep) ==
        /\ RequestId(dep.name, dep.version) \notin c.completedDependencies
        /\ dep.name \notin c.pendingNames
        /\ dep.name \notin c.dependencyNames
        /\ dep.level < MAX_DEPENDENCY_LEVELS
      newDeps == IF q.level < MAX_DEPENDENCY_LEVELS - 1
                   THEN SelectSeq(mapped, Fresh) ELSE <<>>
  IN [st EXCEPT !.dependencies = Put(@, q.name, dependencyNode),
                !.allDiscoveredDependencies =
                   @ \cup pkg.dependencies \cup pkg.devDependencies,
                !.pendingDependencies = @ \o newDeps,
                !.totalDependenciesToLoad = @ + Len(newDeps),
                !.completedDependencies = @ \cup {RequestId(q.name, q.version)},
                !.activeRequests = @ - 1]

\* variant: the failure aborts the traversal (drops the queue, reports an error)
loadSingleDependency_catch_abort(st, q) ==
  [st EXCEPT !.pendingDependencies = <<>>,
             !.error = "Not resolved",
             !.loading = FALSE,
             !.completedDependencies = @ \cup {RequestId(q.name, q.version)},
             !.activeRequests = @ - 1]

\* the catch branch of loadSingleDependency
loadSingleDependency_catch(st, q) ==
  LET errorNode ==
        [name |-> q.name, version |-> q.version,
         description |-> "Not resolved: Package not found",
         dependencies |-> {}, devDependencies |-> {},
         loaded |-> TRUE, loading |-> FALSE, childrenLoaded |-> FALSE,
         hasNoDependencies |-> TRUE]
  IN [st EXCEPT !.dependencies = Put(@, q.name, errorNode),
                !.completedDependencies = @ \cup {RequestId(q.name, q.version)},
                !.activeRequests = @ - 1]

InitHook ==
  /\ hook = hookInitial
  /\ render = hookInitial
  /\ requests = <<>>
  /\ expansions = <<>>
  /\ clicks = 0
  /\ generation = 0
  /\ fetches = 0

\* ------------------------------------------------------------------------
\* Steps of the queue-based hook
\* ------------------------------------------------------------------------
\* analyzeDependencies of the queue-based hook (the input form is shown only
\* while no package is loaded)
hookAnalyzeDependencies(packageJson, includeDevDeps) ==
  /\ clicks < MaxClicks
  /\ hook.packageData = NullPackage
  /\ LET rootNode ==
           [name |-> packageJson.name, version |-> packageJson.version,
            description |-> packageJson.description,
            dependencies |-> packageJson.dependencies,
            devDependencies |-> packageJson.devDependencies,
            loaded |-> TRUE, loading |-> FALSE, childrenLoaded |-> TRUE,
            hasNoDependencies |-> (packageJson.dependencies = {})]
         deps == packageJson.dependencies
         devDeps == IF includeDevDeps THEN packageJson.devDependencies ELSE {}
         allDeps == Entries(deps) \o Entries(devDeps \ deps)
         initialDeps == [i \in DOMAIN allDeps |->
                           [name |-> allDeps[i], version |-> Specifier,
                            level |-> 1]]
     IN hook' = [hook EXCEPT
                   !.loading = (allDeps # <<>>),
                   !.error = "null",
                   !.dependencies = (packageJson.name :> rootNode),
                   !.activeRequests = 0,
                   !.pendingDependencies = initialDeps,
                   !.completedDependencies = {},
                   !.allDiscoveredDependencies = {},
                   !.totalDependenciesToLoad = Len(initialDeps),
                   !.packageData = packageJson,
                   !.showDevDependencies = includeDevDeps]
  /\ clicks' = clicks + 1
  /\ UNCHANGED <<render, requests, expansions>>
  /\ generation' = generation + 1
  /\ fetches' = 0
  /\ UNCHANGED notHook

\* React renders the component with the current cells and runs the effects
\* whose dependency arrays changed: the progress effect, then the effect
\* calling processPendingDependencies
Render ==
  /\ hook # render
  /\ LET r == hook
         s1 == IF ProgressDeps(r) # ProgressDeps(render)
                 THEN ProgressEffect(hook, r) ELSE hook
         out == IF ProcessDeps(r) # ProcessDeps(render)
                  THEN processPendingDependencies(s1, r)
                  ELSE [st |-> s1, started |-> <<>>]
     IN /\ render' = r
        /\ hook' = out.st
        /\ requests' = requests \o [k \in DOMAIN out.started |->
                                      [name |-> out.started[k].name,
                                       version |-> out.started[k].version,
                                       level |-> out.started[k].level,
                                       closure |-> out.started[k].closure,
                                       generation |-> generation]]
        /\ fetches' = fetches + Len(out.started)
  /\ UNCHANGED <<expansions, clicks, generation>>
  /\ UNCHANGED notHook

\* fetchPackageJson of request i resolves
LoadSingleResolved(i) ==
  /\ i \in DOMAIN requests
  /\ hook' = loadSingleDependency_then(hook, requests[i])
  /\ requests' = RemoveAt(requests, i)
  /\ UNCHANGED <<render, expansions, clicks, generation, fetches>>
  /\ UNCHANGED notHook

\* fetchPackageJson of request i throws
LoadSingleRejected(i) ==
  /\ i \in DOMAIN requests
  /\ hook' = loadSingleDependency_catch(hook, requests[i])
  /\ requests' = RemoveAt(requests, i)
  /\ UNCHANGED <<render, expansions, clicks, generation, fetches>>
  /\ UNCHANGED notHook

\* the items toggleDevDependencies collects from the nodes of render r
RECURSIVE NewDevDepsToLoad(_, _)
NewDevDepsToLoad(r, i) ==
  IF i > Len(Order) THEN <<>>
  ELSE
    LET n == Order[i]
        wanted ==
          IF n \in DOMAIN r.dependencies /\ r.dependencies[n].loaded
            THEN {d \in r.dependencies[n].devDependencies :
                    /\ d \notin DOMAIN r.dependencies
                    /\ RequestId(d, Specifier) \notin r.completedDependencies
                    /\ d \notin PendingNames(r)}
            ELSE {}
        names == Entries(wanted)
    IN [k \in DOMAIN names |->
          [name |-> names[k], version |-> Specifier, level |-> 1]]
       \o NewDevDepsToLoad(r, i + 1)

hookToggleDevDependencies(st, r) ==
  LET newValue == ~st.showDevDependencies
      newDevDepsToLoad == IF newValue THEN NewDevDepsToLoad(r, 1) ELSE <<>>
  IN IF newDevDepsToLoad # <<>>
       THEN [st EXCEPT !.showDevDependencies = newValue,
                       !.loading = TRUE,
                       !.pendingDependencies = @ \o newDevDepsToLoad,
                       !.totalDependenciesToLoad = @ + Len(newDevDepsToLoad)]
       ELSE [st EXCEPT !.showDevDependencies = newValue]

\* the dev-dependency checkbox (shown while a package is loaded)
ToggleClicked ==
  /\ clicks < MaxClicks
  /\ render.packageData # NullPackage
  /\ hook' = hookToggleDevDependencies(hook, render)
  /\ clicks' = clicks + 1
  /\ UNCHANGED <<render, requests, expansions, generation, fetches>>
  /\ UNCHANGED notHook

\* the reset button (shown while a package is loaded)
hookReset ==
  /\ clicks < MaxClicks
  /\ render.packageData # NullPackage
  /\ hook' = [hook EXCEPT
                !.activeRequests = 0,
                !.pendingDependencies = <<>>,
                !.completedDependencies = {},
                !.allDiscoveredDependencies = {},
                !.totalDependenciesToLoad = 0,
                !.packageData = NullPackage,
                !.dependencies = <<>>,
                !.error = "null",
                !.progress = ZeroProgress,
                !.showDevDependencies = FALSE]
  /\ clicks' = clicks + 1
  /\ UNCHANGED <<render, requests, expansions>>
  /\ generation' = generation + 1
  /\ fetches' = 0
  /\ UNCHANGED notHook

\* what loadPackageAndDependencies writes once it has the package data
Expanded(st, name, pkg, showDevDeps) ==
  LET dependencyNode ==
        [name |-> name, version |-> pkg.version,
         description |-> pkg.description,
         dependencies |-> pkg.dependencies,
         devDependencies |-> pkg.devDependencies,
         loaded |-> TRUE, loading |-> FALSE, childrenLoaded |-> TRUE,
         hasNoDependencies |->
           (pkg.dependencies = {} /\ (~showDevDeps \/ pkg.devDependencies = {}))]
      allChildDeps == pkg.dependencies \cup
                      (IF showDevDeps THEN pkg.devDependencies ELSE {})
      withNode == Put(st.dependencies, name, dependencyNode)
  IN [st EXCEPT
        !.dependencies =
           [n \in (DOMAIN withNode) \cup allChildDeps |->
              IF n \in DOMAIN withNode THEN withNode[n] ELSE StubNode(n)],
        !.loading = FALSE,
        !.progress = ZeroProgress]

\* loadDependencies (exported as loadPackageDependencies): a click on a node
\* of the tree; an already loaded node is expanded without any await
loadDependencies(packageName) ==
  /\ clicks < MaxClicks
  /\ packageName \in DOMAIN render.dependencies
  /\ ~render.dependencies[packageName].childrenLoaded
  /\ ~render.dependencies[packageName].loading
  /\ LET currentNode == render.dependencies[packageName]
         marked == [hook EXCEPT
                      !.loading = TRUE,
                      !.progress = [current |-> 0, total |-> 1, level |-> 1,
                                    currentPackage |-> packageName],
                      !.dependencies =
                         IF packageName \in DOMAIN @
                           THEN [@ EXCEPT ![packageName].loading = TRUE]
                           ELSE @]
     IN IF currentNode.loaded
          THEN /\ hook' = Expanded(marked, packageName, currentNode,
                                   render.showDevDependencies)
               /\ UNCHANGED expansions
          ELSE /\ hook' = marked
               /\ expansions' = Append(expansions,
                                  [name |-> packageName,
                                   version |-> currentNode.version,
                                   showDevDependencies |->
                                     render.showDevDependencies])
  /\ clicks' = clicks + 1
  /\ UNCHANGED <<render, requests, generation, fetches>>
  /\ UNCHANGED notHook

\* fetchPackageJson of expansion i resolves
ExpansionResolved(i) ==
  /\ i \in DOMAIN expansions
  /\ hook' = Expanded(hook, expansions[i].name, Registry[expansions[i].name],
                      expansions[i].showDevDependencies)
  /\ expansions' = RemoveAt(expansions, i)
  /\ UNCHANGED <<render, requests, clicks, generation, fetches>>
  /\ UNCHANGED notHook

\* fetchPackageJson of expansion i throws
ExpansionRejected(i) ==
  /\ i \in DOMAIN expansions
  /\ LET e == expansions[i]
         errorNode ==
           [name |-> e.name, version |-> e.version,
            description |-> "Failed to load: Package not found",
            dependencies |-> {}, devDependencies |-> {},
            loaded |-> TRUE, loading |-> FALSE, childrenLoaded |-> FALSE,
            hasNoDependencies |-> TRUE]
     IN hook' = [hook EXCEPT !.dependencies = Put(@, e.name, errorNode),
                             !.loading = FALSE,
                             !.progress = ZeroProgress]
  /\ expansions' = RemoveAt(expansions, i)
  /\ UNCHANGED <<render, requests, clicks, generation, fetches>>
  /\ UNCHANGED notHook

MaxInFlight == Cardinality(Names) * MaxClicks

NextHook ==
  \/ \E m \in RootManifests, includeDevDeps \in BOOLEAN :
        hookAnalyzeDependencies(m, includeDevDeps)
  \/ Render
  \/ \E i \in 1..MaxInFlight : LoadSingleResolved(i)
  \/ \E i \in 1..MaxInFlight : LoadSingleRejected(i)
  \/ ToggleClicked
  \/ hookReset
  \/ \E n \in Names : loadDependencies(n)
  \/ \E i \in 1..MaxInFlight : ExpansionResolved(i)
  \/ \E i \in 1..MaxInFlight : ExpansionRejected(i)

\* ------------------------------------------------------------------------
\* npmService: fetchPackageJson, findBestMatch, parseVersion, compareVersions
\* ------------------------------------------------------------------------
\* A string is either a version number written as three runs of decimal
\* digits separated by dots, any other word, or undefined / null.
Digits(n) == IF n < 10 THEN <<n>> ELSE <<n \div 10, n % 10>>
VersionString(major, minor, patch) ==
  [kind |-> "version", parts |-> <<Digits(major), Digits(minor), Digits(patch)>>,
   word |-> ""]
Word(w) == [kind |-> "word", parts |-> <<>>, word |-> w]
Undefined == [kind |-> "undefined", parts |-> <<>>, word |-> ""]

\* !s of JavaScript for a string, undefined or null
Falsy(s) == s = Undefined \/ s = Word("")

\* the version numbers a registry document may list, in the key order of its
\* versions map (the order of publication: 1.10.0 came out after 2.0.0)
PublishOrder ==
  <<VersionString(1, 0, 0), VersionString(1, 9, 0), VersionString(2, 0, 0),
    VersionString(1, 10, 0)>>
Publishable == {PublishOrder[i] : i \in 1..Len(PublishOrder)}

\* specifiers that name no registry version
NonRegistryWords ==
  {"file:../local", "git+https://host/repo.git", "http://host/pkg.tgz",
   "https://host/pkg.tgz", "link:../pkg", "workspace:*"}
\* s.includes('.') for the words above
DottedWords == NonRegistryWords \ {"workspace:*"}

\* the version arguments fetchPackageJson is called with: undefined, or an
\* optional range operator followed by a body
Prefixes == {"", "^"}
Bodies ==
  Publishable
  \cup {VersionString(1, 5, 0), VersionString(3, 0, 0)}
  \cup {Word(""), Word("latest")}
  \cup {Word(w) : w \in NonRegistryWords}
Specifiers ==
  {[prefix |-> "", body |-> Undefined]}
  \cup {[prefix |-> p, body |-> b] : p \in Prefixes, b \in Bodies}

\* HTTP status codes of the registry's answer
Statuses == {200, 404, 500}
ResponseOk(status) == status >= 200 /\ status <= 299

\* the registry documents: data.versions (present or not, and its keys) and
\* data['dist-tags'].latest (Undefined when there is no tag)
RegistryData ==
  {[status |-> st, hasVersions |-> FALSE, versions |-> {}, latest |-> Undefined] :
      st \in Statuses \ {200}}
  \cup {[status |-> 200, hasVersions |-> FALSE, versions |-> {}, latest |-> Undefined]}
  \cup {[status |-> 200, hasVersions |-> TRUE, versions |-> vs, latest |-> l] :
          vs \in SUBSET Publishable, l \in Publishable \cup {Undefined}}

\* Object.keys(data.versions)
Keys(d) == SelectSeq(PublishOrder, LAMBDA v : v \in d.versions)

\* parseInt(run, 10)
RECURSIVE ParseInt(_)
ParseInt(ds) ==
  IF ds = <<>> THEN 0
  ELSE 10 * ParseInt(SubSeq(ds, 1, Len(ds) - 1)) + ds[Len(ds)]

NoMatch == <<>>
\* version.match(/^(\d+)\.(\d+)\.(\d+)/) mapped through parseInt
parseVersion(version) ==
  IF version.kind = "version"
  THEN <<ParseInt(version.parts[1]), ParseInt(version.parts[2]),
         ParseInt(version.parts[3])>>
  ELSE NoMatch

\* the order of two runs of digits as strings
RECURSIVE LexCompare(_, _)
LexCompare(x, y) ==
  IF x = <<>> /\ y = <<>> THEN 0
  ELSE IF x = <<>> THEN -1
  ELSE IF y = <<>> THEN 1
  ELSE IF Head(x) # Head(y) THEN Head(x) - Head(y)
  ELSE LexCompare(Tail(x), Tail(y))

\* variant: the parts are compared as strings
compareVersions_lexicographic(a, b) ==
  IF a.kind # "version" \/ b.kind # "version" THEN 0
  ELSE IF LexCompare(a.parts[1], b.parts[1]) # 0 THEN LexCompare(a.parts[1], b.parts[1])
  ELSE IF LexCompare(a.parts[2], b.parts[2]) # 0 THEN LexCompare(a.parts[2], b.parts[2])
  ELSE LexCompare(a.parts[3], b.parts[3])

compareVersions(a, b) ==
  LET aParts == parseVersion(a)
      bParts == parseVersion(b)
  IN IF aParts = NoMatch \/ bParts = NoMatch THEN 0
     ELSE IF aParts[1] # bParts[1] THEN aParts[1] - bParts[1]
     ELSE IF aParts[2] # bParts[2] THEN aParts[2] - bParts[2]
     ELSE IF aParts[3] # bParts[3] THEN aParts[3] - bParts[3]
     ELSE 0

\* Array.prototype.sort(compareVersions): a stable sort
RECURSIVE InsertSorted(_, _)
InsertSorted(q, x) ==
  IF q = <<>> THEN <<x>>
  ELSE IF compareVersions(x, Head(q)) < 0 THEN <<x>> \o q
  ELSE <<Head(q)>> \o InsertSorted(Tail(q), x)
RECURSIVE Sort(_)
Sort(q) ==
  IF q = <<>> THEN <<>>
  ELSE InsertSorted(Sort(SubSeq(q, 1, Len(q) - 1)), q[Len(q)])
RECURSIVE Reverse(_)
Reverse(q) == IF q = <<>> THEN <<>> ELSE Reverse(Tail(q)) \o <<Head(q)>>

\* sortedVersions[0] || null
FirstOrNull(q) == IF q = <<>> THEN Undefined ELSE q[1]

\* the test of the loop of findBestMatch
Compatible(versionParts, targetParts) ==
  /\ versionParts[1] = targetParts[1]
  /\ \/ versionParts[2] > targetParts[2]
     \/ versionParts[2] = targetParts[2] /\ versionParts[3] >= targetParts[3]

IncludesDot(s) == s.kind = "version" \/ (s.kind = "word" /\ s.word \in DottedWords)

findBestMatch(availableVersions, targetVersion) ==
  IF Falsy(targetVersion) \/ targetVersion = Word("latest") THEN Undefined
  ELSE
    LET sortedVersions ==
          Reverse(Sort(SelectSeq(availableVersions, LAMBDA v : v.kind = "version")))
        targetParts == parseVersion(targetVersion)
        matching == SelectSeq(sortedVersions,
                      LAMBDA v : parseVersion(v) # NoMatch
                                 /\ Compatible(parseVersion(v), targetParts))
    IN IF \E i \in 1..Len(sortedVersions) : sortedVersions[i] = targetVersion
       THEN targetVersion
       ELSE IF IncludesDot(targetVersion)
       THEN IF targetParts = NoMatch THEN FirstOrNull(sortedVersions)
            ELSE IF matching # <<>> THEN matching[1]
            ELSE FirstOrNull(sortedVersions)
       ELSE FirstOrNull(sortedVersions)

\* version ? version.replace(/^[\^~>=<\s]+/, '') : 'latest'
cleanVersion(version) ==
  IF version.body = Undefined \/ (version.prefix = "" /\ version.body = Word(""))
  THEN Word("latest")
  ELSE version.body

NoOutcome == [kind |-> "none", version |-> Undefined, description |-> "",
              message |-> "", status |-> 0]
\* the manifest built from data.versions[key]
Manifest(key) ==
  [kind |-> "manifest", version |-> key, description |-> "registry",
   message |-> "", status |-> 0]
Throw(message, status) ==
  [kind |-> "error", version |-> Undefined, description |-> "",
   message |-> message, status |-> status]

\* variant: a 404 is reported like any other failed request
ResponseError_generic(status) ==
  Throw("Failed to fetch package x: status", status)

\* the error thrown for a response that is not ok
ResponseError(status) ==
  IF status = 404 THEN Throw("Package x not found", status)
  ELSE Throw("Failed to fetch package x: status", status)

\* the target version
TargetVersion(d, clean) ==
  IF clean = Word("latest") \/ Falsy(clean)
  THEN IF ~Falsy(d.latest) THEN d.latest
       ELSE Reverse(Sort(Keys(d)))[1]
  ELSE clean

\* what fetchPackageJson(packageName, version) does with the registry's answer
fetchPackageJson(version, d) ==
  IF ~ResponseOk(d.status) THEN ResponseError(d.status)
  ELSE IF ~d.hasVersions \/ d.versions = {}
  THEN Throw("No versions available for package x", 0)
  ELSE
    LET targetVersion == TargetVersion(d, cleanVersion(version))
        availableVersions == Keys(d)
        compatibleVersion == findBestMatch(availableVersions, targetVersion)
        latestVersion == d.latest
        sortedVersions == Reverse(Sort(availableVersions))
    IN IF targetVersion \in d.versions THEN Manifest(targetVersion)
       ELSE IF ~Falsy(compatibleVersion) THEN Manifest(compatibleVersion)
       ELSE IF ~Falsy(latestVersion) /\ latestVersion \in d.versions
       THEN Manifest(latestVersion)
       ELSE IF sortedVersions # <<>> THEN Manifest(sortedVersions[1])
       ELSE Throw("No compatible version found for x", 0)

InitNpm ==
  /\ call = [version |-> [prefix |-> "", body |-> Undefined], stage |-> "idle"]
  /\ data = [status |-> 200, hasVersions |-> FALSE, versions |-> {}, latest |-> Undefined]
  /\ outcome = NoOutcome
  /\ fetchCount = 0

\* fetchPackageJson(packageName, version) is called and runs up to its
\* await fetch(...)
FetchPackageJsonCalled(version, d) ==
  /\ call.stage = "idle"
  /\ call' = [version |-> version, stage |-> "awaiting"]
  /\ data' = d
  /\ outcome' = NoOutcome
  /\ fetchCount' = 1
  /\ UNCHANGED notNpm

\* the response arrives and the call returns a manifest
FetchPackageJsonReturned ==
  /\ call.stage = "awaiting"
  /\ fetchPackageJson(call.version, data).kind = "manifest"
  /\ outcome' = fetchPackageJson(call.version, data)
  /\ call' = [call EXCEPT !.stage = "returned"]
  /\ UNCHANGED <<data, fetchCount>>
  /\ UNCHANGED notNpm

\* the response arrives and the call throws
FetchPackageJsonThrew ==
  /\ call.stage = "awaiting"
  /\ fetchPackageJson(call.version, data).kind = "error"
  /\ outcome' = fetchPackageJson(call.version, data)
  /\ call' = [call EXCEPT !.stage = "thrown"]
  /\ UNCHANGED <<data, fetchCount>>
  /\ UNCHANGED notNpm

NextNpm ==
  \/ \E version \in Specifiers, d \in RegistryData : FetchPackageJsonCalled(version, d)
  \/ FetchPackageJsonReturned
  \/ FetchPackageJsonThrew

\* ------------------------------------------------------------------------
\* dependencyWorker: self.onmessage
\* ------------------------------------------------------------------------
MessageIds == 1..MaxMessages
\* the version fields of the messages
MessageVersions ==
  {[prefix |-> "", body |-> Undefined],
   [prefix |-> "^", body |-> VersionString(1, 0, 0)]}

NotReceived == [stage |-> "none", version |-> [prefix |-> "", body |-> Undefined],
                result |-> "none"]

\* variant: nothing is posted when the resolution throws
PostResponse_silentError(out, id, r) ==
  IF r.kind = "manifest"
  THEN Append(out, [id |-> id, type |-> "FETCH_SUCCESS"])
  ELSE out

\* self.postMessage(response) at the end of the try block or of the catch
PostResponse(out, id, r) ==
  Append(out, [id |-> id,
               type |-> IF r.kind = "manifest" THEN "FETCH_SUCCESS"
                        ELSE "FETCH_ERROR"])

InitFetchWorker ==
  /\ handlers = [id \in MessageIds |-> NotReceived]
  /\ outbox = <<>>

\* a FETCH_DEPENDENCY message arrives: the handler runs up to
\* await fetchPackageJson(packageName, version)
OnMessage(id, version) ==
  /\ handlers[id].stage = "none"
  /\ handlers' = [handlers EXCEPT ![id] = [stage |-> "awaiting", version |-> version,
                                           result |-> "none"]]
  /\ UNCHANGED outbox
  /\ UNCHANGED notFetchWorker

\* fetchPackageJson returns or throws for the message id and the handler
\* runs to its end
OnMessageResumed(id, d) ==
  /\ handlers[id].stage = "awaiting"
  /\ LET r == fetchPackageJson(handlers[id].version, d)
     IN /\ outbox' = PostResponse(outbox, id, r)
        /\ handlers' = [handlers EXCEPT ![id].stage = "done", ![id].result = r.kind]
  /\ UNCHANGED notFetchWorker

NextFetchWorker ==
  \/ \E id \in MessageIds, version \in MessageVersions : OnMessage(id, version)
  \/ \E id \in MessageIds, d \in RegistryData : OnMessageResumed(id, d)

\* ------------------------------------------------------------------------
\* Specifications
\* ------------------------------------------------------------------------
\* the worker pool on its own
Init == InitPool /\ InitSlice /\ InitHook /\ InitNpm /\ InitFetchWorker

Next == NextPool

Spec == Init /\ [][Next]_vars

\* the Redux store, its thunks and the hook driving them
SpecSlice == Init /\ [][NextSlice]_vars

\* the queue-based hook, React's renders and its fetches
SpecHook == Init /\ [][NextHook]_vars

\* the eager traversal of the queue-based hook on its own: one analysis, the
\* renders and the fetches, with no further user operation
NextTraversal ==
  \/ \E m \in RootManifests, includeDevDeps \in BOOLEAN :
        hookAnalyzeDependencies(m, includeDevDeps)
  \/ Render
  \/ \E i \in 1..MaxInFlight : LoadSingleResolved(i)
  \/ \E i \in 1..MaxInFlight : LoadSingleRejected(i)

SpecTraversal == Init /\ [][NextTraversal]_vars

\* the registry client: one call of fetchPackageJson for every version
\* argument and every registry document
SpecNpm == Init /\ [][NextNpm]_vars

\* one fetch worker and the messages sent to it
SpecFetchWorker == Init /\ [][NextFetchWorker]_vars

\* The pool when terminate() is never called and every worker eventually
\* answers each message posted to it.
NextPoolLive ==
  \/ \E p \in PoolPackages : nextId <= MaxLiveTasks /\ fetchDependency(p)
  \/ \E w \in Workers, id \in TaskIds, type \in {"FETCH_SUCCESS", "FETCH_ERROR"} :
        WorkerRespond(w, id, type)
  \/ \E w \in Workers : WorkerError(w)

Answers(w, id) == \E type \in {"FETCH_SUCCESS", "FETCH_ERROR"} : WorkerRespond(w, id, type)

SpecPoolLive ==
  /\ Init
  /\ [][NextPoolLive]_vars
  /\ \A w \in Workers : \A id \in TaskIds : WF_vars(Answers(w, id))

\* ------------------------------------------------------------------------
\* WorkerPool properties
\* ------------------------------------------------------------------------
Settled(id) == promise[id].state \in {"resolved", "rejected"}
Pending(id) == promise[id].state = "pending"
PosIn(q, x) == CHOOSE i \in 1..Len(q) : q[i] = x

\* C1: before terminate(), every worker is in availableWorkers or is running
\* a task recorded in activeRequests, so that
\* availableWorkers.length + activeRequests.size = totalWorkers.
C1_SlotReclaim ==
  ~terminated =>
    /\ \A w \in Workers :
          \/ w \in SeqToSet(availableWorkers)
          \/ \E id \in activeRequests : assigned[id] = w
    /\ Len(availableWorkers) + Cardinality(activeRequests) = Cardinality(workers)

\* C2: activeRequests.size <= maxWorkers in every state, the queue is
\* non-empty only while no worker is available, and fetchDependency posts the
\* task at once when a worker is available and appends it to taskQueue
\* otherwise.
C2_StateBound ==
  /\ Cardinality(activeRequests) <= MaxWorkers
  /\ Len(taskQueue) > 0 => Len(availableWorkers) = 0

C2_Dispatch ==
  \A p \in PoolPackages :
    fetchDependency(p) =>
      IF Len(availableWorkers) > 0
      THEN /\ posted' = Append(posted, nextId)
           /\ nextId \in activeRequests'
           /\ taskQueue' = taskQueue
      ELSE /\ taskQueue' = Append(taskQueue, nextId)
           /\ posted' = posted
           /\ activeRequests' = activeRequests

C2_ConcurrencyBound == [](C2_StateBound) /\ [][C2_Dispatch]_vars

C2_Witness ==
  /\ Len(taskQueue) > 0
  /\ Cardinality(activeRequests) = MaxWorkers
  /\ \E id \in TaskIds : Settled(id)

\* C3: of two tasks that were both placed in taskQueue, the one submitted
\* earlier (smaller id) is posted to a worker before the other.
C3_Fifo ==
  \A a \in everQueued : \A b \in everQueued :
    (a < b /\ b \in SeqToSet(posted)) =>
      /\ a \in SeqToSet(posted)
      /\ PosIn(posted, a) < PosIn(posted, b)

C3_Witness ==
  \E a \in everQueued : \E b \in everQueued :
    /\ a < b
    /\ b \in SeqToSet(posted)
    /\ \E c \in TaskIds : \E d \in TaskIds :
          c < d /\ Pending(c) /\ Settled(d) /\ c \notin everQueued /\ d \notin everQueued

\* C4: a worker's error event rejects only the promise of the task assigned
\* to that worker; tasks running on other workers stay in activeRequests.
C4_CrashIsolated ==
  /\ \A id \in TaskIds : cause[id].kind = "error" => cause[id].worker = assigned[id]
  /\ ~terminated =>
        \A w \in Workers : \A id \in inbox[w] :
          (Pending(id) /\ assigned[id] = w) => id \in activeRequests

\* C5: without terminate() and with workers that answer every message, every
\* promise returned by fetchDependency is eventually resolved or rejected.
C5_Liveness == \A id \in TaskIds : Pending(id) ~> Settled(id)

C5_Witness ==
  \E a \in TaskIds : \E b \in everQueued :
    /\ a < b
    /\ cause[a].kind = "error"
    /\ cause[a].worker = assigned[a]
    /\ assigned[b] = assigned[a]
    /\ cause[b].kind = "response"

\* C6: right after terminate() getStats() reports 0 workers, 0 available,
\* 0 active and 0 queued (and keeps doing so until the next submission), and
\* a promise whose task was in flight or queued at terminate() is never
\* settled.
C6_TerminateDiscards ==
  /\ (terminated /\ \A id \in TaskIds : Pending(id) => id \in atTerminate) =>
        getStats = [totalWorkers |-> 0, availableWorkers |-> 0,
                    activeRequests |-> 0, queuedTasks |-> 0]
  /\ \A id \in atTerminate : Pending(id)

C6_Witness ==
  /\ terminated
  /\ \E a \in atTerminate : \E b \in atTerminate :
        a \in everQueued /\ b \notin everQueued /\ assigned[b] # NoWorker
  /\ \E id \in TaskIds : Pending(id) /\ id \notin atTerminate

\* C7: every promise is settled at most once; it is resolved only by a
\* FETCH_SUCCESS response carrying its own id, with that response's payload;
\* a FETCH_ERROR response carrying its id rejects it; a response whose id is
\* not in activeRequests settles no promise.
C7_StateRouting ==
  \A id \in TaskIds :
    /\ settles[id] <= 1
    /\ Settled(id) <=> settles[id] = 1
    /\ promise[id].state = "resolved" =>
          /\ cause[id] = [kind |-> "response", worker |-> assigned[id],
                          type |-> "FETCH_SUCCESS"]
          /\ promise[id].of = id
          /\ promise[id].kind = "mainNode"
          /\ promise[id].packageName = tasks[id].packageName
    /\ cause[id].type = "FETCH_ERROR" =>
          /\ promise[id].state = "rejected"
          /\ promise[id].of = id
          /\ promise[id].kind = "errorNode"

C7_StepRouting ==
  \A w \in Workers : \A id \in TaskIds : \A type \in {"FETCH_SUCCESS", "FETCH_ERROR"} :
    WorkerRespond(w, id, type) =>
      /\ id \notin activeRequests => (promise' = promise /\ settles' = settles)
      /\ (id \in activeRequests /\ type = "FETCH_ERROR") => promise'[id].state = "rejected"
      /\ (id \in activeRequests /\ type = "FETCH_SUCCESS") => promise'[id].state = "resolved"
      /\ \A other \in TaskIds \ {id} : promise'[other] = promise[other]

C7_ResultRouting == [](C7_StateRouting) /\ [][C7_StepRouting]_vars

C7_Witness ==
  /\ ignored # {}
  /\ \E a \in TaskIds : promise[a].state = "resolved"
  /\ \E b \in TaskIds : cause[b].type = "FETCH_ERROR"

\* C36: no double assignment.  availableWorkers never lists a worker
\* twice, a listed worker has no task running, and no worker has two tasks
\* running (a task runs from its postMessage to its response or to the error
\* event of its worker).
C36_NoDoubleAssignment ==
  /\ \A i, j \in 1..Len(availableWorkers) :
        i # j => availableWorkers[i] # availableWorkers[j]
  /\ \A w \in SeqToSet(availableWorkers) : inbox[w] = {}
  /\ \A w \in Workers : Cardinality(inbox[w]) <= 1

\* a worker raised an error while the other one was busy, a third task was
\* handed out afterwards, and one worker is idle
C36_Witness ==
  /\ \E id \in TaskIds : cause[id].kind = "error"
  /\ \E w \in Workers : inbox[w] # {}
  /\ Len(availableWorkers) = 1
  /\ Len(posted) = 3

\* ------------------------------------------------------------------------
\* Redux store properties
\* ------------------------------------------------------------------------
\* C8: from setPackageData until reset the graph holds the root package's
\* node, Resolved and carrying the fields of the submitted manifest, and no
\* fetch is dispatched for the root package's name.
C8_RootInvariant ==
  rootPackage # "null" =>
    /\ rootPackage \in DOMAIN nodes
    /\ nodes[rootPackage].loaded
    /\ nodes[rootPackage].name = packageData.name
    /\ nodes[rootPackage].version = packageData.version
    /\ nodes[rootPackage].description = packageData.description
    /\ nodes[rootPackage].dependencies = packageData.dependencies
    /\ nodes[rootPackage].devDependencies = packageData.devDependencies
    /\ fetched[rootPackage] = 0

\* C9: at most one fetch is dispatched for a package name in a session.
C9_Dedup == \A n \in Names : fetched[n] <= 1

\* a node with a terminal status: Resolved or Failed (both are stored with
\* loaded = true); the root is left to the root invariant
Terminal(n) == n \in DOMAIN nodes /\ nodes[n].loaded /\ n # rootPackage
Failed(nd) == nd.description \in {"Failed to load: Worker error",
                                  "Failed to load: Package not found"}

\* C11: terminal idempotence.  Within one session no step dispatches a fetch
\* for a node that is already Resolved or Failed, and a Failed node that stays
\* in the graph stays Failed.
C11_TerminalIdempotence ==
  [][(packageData # NullPackage /\ packageData' = packageData) =>
       \A n \in Names :
         Terminal(n) =>
           /\ fetched'[n] = fetched[n]
           /\ (Failed(nodes[n]) /\ n \in DOMAIN nodes') => Failed(nodes'[n])]_vars

\* C12: every package reached becomes terminal.  Once the preload of the
\* analysed package has finished and no fetch is in flight, every dependency
\* of the root has a Resolved or Failed node, and so has every dependency of
\* a Resolved dependency of the root (the second level of the preload).
C12_ReachedBecomeTerminal ==
  (packageData # NullPackage /\ preloads = <<>> /\ lazy = <<>>) =>
    \A d \in packageData.dependencies :
      /\ Terminal(d)
      /\ ~Failed(nodes[d]) =>
           \A e \in nodes[d].dependencies \ {rootPackage} : Terminal(e)

\* C13: stale results after reset.  While no package is analysed (after
\* reset() and before the next analyze) the store keeps its reset values,
\* whatever fetches of the previous session complete in the meantime.
C13_StaleResultsIgnored ==
  packageData = NullPackage =>
    /\ nodes = initialState.nodes
    /\ loading = initialState.loading
    /\ error = initialState.error
    /\ progress = initialState.progress
    /\ activeWorkers = initialState.activeWorkers

\* C15: failed node shape.  While the node of a package whose last fetch
\* failed is in the graph, its description is 'Failed to load: ' followed by
\* the reason the fetch reported, its dependency maps are empty and
\* hasNoDependencies is true.
C15_FailedNodeShape ==
  \A n \in Names :
    (reported[n] # "" /\ n \in DOMAIN nodes) =>
      /\ nodes[n].description = FailedToLoad(reported[n])
      /\ nodes[n].dependencies = {}
      /\ nodes[n].devDependencies = {}
      /\ nodes[n].hasNoDependencies

\* the number of fetched packages with a terminal status
TerminalCount == Cardinality({n \in Names : Terminal(n)})

\* C17: progress monotonicity.  While a session is loading, progress.current
\* is the number of nodes in a terminal status (with or without the root,
\* which is Resolved from the start), and from one state of the session to
\* the next it never decreases.
C17_CurrentCountsTerminal ==
  (packageData # NullPackage /\ loading) =>
    progress.current \in {TerminalCount, TerminalCount + 1}
C17_CurrentNeverDecreases ==
  (packageData # NullPackage /\ packageData' = packageData /\ loading /\ loading') =>
    progress'.current >= progress.current
C17_ProgressMonotone ==
  [](C17_CurrentCountsTerminal) /\ [][C17_CurrentNeverDecreases]_vars

\* C19: completion to idle.  Whenever no thunk is running (nothing pending,
\* no fetch in flight) and the delayed clearProgressMessage of the last
\* preload has run, the store is idle: loading is false and progress is the
\* zero value.
C19_IdleWhenDone ==
  (lazy = <<>> /\ preloads = <<>> /\ timers = 0) =>
    /\ ~loading
    /\ progress = ZeroProgress

\* C20: seed set.  analyzeDependencies(manifest, includeDev) leaves in the
\* graph the root and exactly one unresolved stub per name of
\* manifest.dependencies, plus one per name of manifest.devDependencies if and
\* only if includeDev is true, hands exactly these names to the preload as its
\* level-1 work and dispatches one fetch for each of them and for no other
\* name.
C20_SeedSet ==
  [][\A m \in RootManifests, includeDev \in BOOLEAN, levels \in PreloadLevels :
       analyzeDependencies(m, includeDev, levels) =>
         LET seed == m.dependencies \cup
                     (IF includeDev THEN m.devDependencies ELSE {})
         IN /\ DOMAIN nodes' = {m.name} \cup seed
            /\ \A d \in seed \ {m.name} : nodes'[d] = StubNode(d)
            /\ \A n \in Names : fetched'[n] = IF n \in seed THEN 1 ELSE 0
            /\ seed # {} =>
                  /\ Len(preloads') = Len(preloads) + 1
                  /\ preloads'[Len(preloads')].level1Deps = seed
                  /\ \A d \in seed : preloads'[Len(preloads')].l1[d] = "wait"]_vars

\* a manifest with the dev-only name C was analysed with includeDev false:
\* only A is seeded and fetched
C20_Witness ==
  /\ ops = 1
  /\ packageData.devDependencies = {"C"}
  /\ ~showDevDependencies
  /\ DOMAIN nodes = {"app", "A"}
  /\ nodes["A"] = StubNode("A")
  /\ fetched["A"] = 1 /\ fetched["C"] = 0
  /\ Len(preloads) = 1 /\ preloads[1].level1Deps = {"A"}

\* the guard of loadPackageDependencies: the click is ignored
Ignored(name) ==
  \/ name \notin DOMAIN nodes
  \/ nodes[name].childrenLoaded
  \/ nodes[name].loading

\* the dependency names a fetched manifest reveals under a visibility setting
Revealed(name, show) ==
  Registry[name].dependencies \cup
  (IF show THEN Registry[name].devDependencies ELSE {})

C21_NoOpWhenBusyOrDone ==
  \A n \in Names :
     loadPackageDependencies(n) /\ Ignored(n) => UNCHANGED sliceVars

C21_OneFetch ==
  \A n \in Names :
     loadPackageDependencies(n) /\ ~Ignored(n) =>
       /\ fetched' = Bump(fetched, {n})
       /\ Len(lazy') = Len(lazy) + 1
       /\ lazy'[Len(lazy')].packageName = n

C21_SuccessAddsStubs ==
  \A i \in 1..Len(lazy) :
     LoadDependencyFulfilled(i) =>
       LET n == lazy[i].packageName
           new == Revealed(n, showDevDependencies) \ (DOMAIN nodes \cup {n})
       IN /\ nodes'[n].loaded /\ nodes'[n].childrenLoaded /\ ~nodes'[n].loading
          /\ DOMAIN nodes' = DOMAIN nodes \cup {n} \cup new
          /\ \A d \in new : nodes'[d] = StubNode(d)
          /\ fetched' = fetched

\* C21: lazy expand.  A click on a node that is loading or whose children are
\* loaded dispatches no fetch and changes nothing; any other click on a node
\* dispatches exactly one fetch for that name; when that fetch succeeds the
\* node becomes resolved and every dependency name it reveals (dev names only
\* when dev dependencies are shown) that has no node yet gets an unfetched
\* stub, and no other node is added.
C21_LazyExpand ==
  [][C21_NoOpWhenBusyOrDone /\ C21_OneFetch /\ C21_SuccessAddsStubs]_vars

\* a node that holds a fetched manifest
Resolved(nd) == nd.loaded /\ ~Failed(nd)

\* the name is a regular dependency of a package of the graph
RegularDependency(name) ==
  /\ name # rootPackage
  /\ \E n \in DOMAIN nodes : nodes[n].loaded /\ name \in nodes[n].dependencies

\* C22: toggling the visibility of dev dependencies never leads to a fetch of
\* a regular-dependency node that is already resolved: the toggle dispatches
\* no fetch, and a click on such a node dispatches none either.
C22_NoRefetchAfterToggle ==
  [][/\ ToggleDevDependencies => fetched' = fetched
     /\ \A n \in DOMAIN nodes :
           (loadPackageDependencies(n) /\ Resolved(nodes[n]) /\ RegularDependency(n))
              => fetched' = fetched]_vars

\* a fetch of the name is awaited by a loadDependency or loadInitialLevels thunk
InFlight(name) ==
  \/ \E i \in 1..Len(lazy) : lazy[i].packageName = name
  \/ \E i \in 1..Len(preloads) :
        \/ name \in preloads[i].level1Deps /\ preloads[i].l1[name] = "wait"
        \/ name \in preloads[i].level2 /\ preloads[i].l2[name] = "wait"

\* C23: toggle on.  When the visibility of dev dependencies is switched on,
\* every devDependencies name of a resolved node that has no node and no fetch
\* in flight is given an unresolved stub by that step.
C23_ToggleOnReveals ==
  [][(ToggleDevDependencies /\ ~showDevDependencies) =>
       \A n \in DOMAIN nodes \ {rootPackage} :
          Resolved(nodes[n]) =>
            \A d \in nodes[n].devDependencies :
               (d \notin DOMAIN nodes /\ ~InFlight(d)) =>
                  (d \in DOMAIN nodes' /\ nodes'[d] = StubNode(d))]_vars

\* the nodes of the graph reachable from the root in at most k steps along
\* the dependencies (not devDependencies) fields of the nodes
RECURSIVE RegularReach(_)
RegularReach(k) ==
  IF k = 0 THEN {rootPackage} \cap DOMAIN nodes
  ELSE LET R == RegularReach(k - 1)
       IN R \cup {d \in DOMAIN nodes : \E n \in R : d \in nodes[n].dependencies}

\* the fields of a node that come from its manifest
Fetched(nd) ==
  <<nd.name, nd.version, nd.description, nd.dependencies, nd.devDependencies,
    nd.loaded>>

\* C24: toggle off prunes only dev-only nodes.  When the visibility of dev
\* dependencies is switched off, the root and every node reachable from it
\* along regular dependency edges stay in the graph with their fetched fields;
\* only nodes not reachable that way are removed.
C24_PruneOnlyDevOnly ==
  [][(ToggleDevDependencies /\ showDevDependencies) =>
       \A n \in RegularReach(Cardinality(Names)) :
          /\ n \in DOMAIN nodes'
          /\ Fetched(nodes'[n]) = Fetched(nodes[n])]_vars

\* the dev-only name C was seeded and fetched, and a toggle off has removed
\* it while A and the root are still there
C24_Witness ==
  /\ packageData # NullPackage
  /\ ~showDevDependencies
  /\ fetched["C"] >= 1
  /\ "C" \notin DOMAIN nodes
  /\ {"app", "A"} \subseteq DOMAIN nodes

\* a lazy load of the name starts or ends in this step
LoadStarts(name) == loadPackageDependencies(name) /\ ~Ignored(name)
LoadSucceeds(name) ==
  \E i \in 1..Len(lazy) : lazy[i].packageName = name /\ LoadDependencyFulfilled(i)
LoadFails(name) ==
  \E i \in 1..Len(lazy), why \in Rejections :
     lazy[i].packageName = name /\ LoadDependencyRejected(i, why)

\* C30: error surfacing.  A failed load puts its message in the error field,
\* later load starts and successful completions leave that message in place,
\* and a node that failed stays in the graph as a failed node, with its
\* description and hasNoDependencies, through the loads of other names.
C30_ErrorSurfacing ==
  [][\A name \in Names :
       /\ LoadFails(name) => error' # "null"
       /\ (LoadStarts(name) \/ LoadSucceeds(name)) => error' = error
       /\ (LoadStarts(name) \/ LoadSucceeds(name) \/ LoadFails(name)) =>
            \A n \in DOMAIN nodes \ {name} :
               Failed(nodes[n]) =>
                 /\ n \in DOMAIN nodes'
                 /\ nodes'[n].description = nodes[n].description
                 /\ nodes'[n].hasNoDependencies = nodes[n].hasNoDependencies]_vars

\* C32: frame of a successful load.  loadDependency.fulfilled for package P
\* changes the node stored under P only: every other node of the graph is
\* left as it was, and the nodes it adds are stubs for child names of P that
\* had no node.
C32_FulfilledFrame ==
  [][\A i \in 1..Len(lazy) :
       LoadDependencyFulfilled(i) =>
         LET P == lazy[i].packageName
             children == Revealed(P, lazy[i].showDevDeps)
         IN /\ \A n \in DOMAIN nodes \ {P} :
                  n \in DOMAIN nodes' /\ nodes'[n] = nodes[n]
            /\ \A n \in DOMAIN nodes' \ (DOMAIN nodes \cup {P}) :
                  n \in children /\ nodes'[n] = StubNode(n)
            /\ children \subseteq DOMAIN nodes']_vars

\* the load of A failed, the load of C succeeded and added the stub of its
\* child B, and both nodes are in the graph as their own loads left them
C32_Witness ==
  /\ {"A", "B", "C"} \subseteq DOMAIN nodes
  /\ Failed(nodes["A"])
  /\ nodes["C"].loaded /\ ~Failed(nodes["C"])
  /\ nodes["B"] = StubNode("B")
  /\ fetched["B"] = 0
  /\ lazy = <<>>

\* C33: the active-task counter settles.  When no preload is running and
\* every dispatched loadDependency has been fulfilled or rejected,
\* activeWorkers is 0 and loading is false.
C33_CounterSettles ==
  (preloads = <<>> /\ lazy = <<>>) => (activeWorkers = 0 /\ ~loading)

\* C34: loading reflects in-flight work.  While a manifest is being analysed
\* and a lazy load or a preload fetch is in flight, loading is true.
C34_LoadingWhileInFlight ==
  (packageData # NullPackage /\ \E name \in Names : InFlight(name)) => loading

\* the names of graph g reachable from root in at most k steps along the
\* dependencies (not devDependencies) fields of the nodes of g
RECURSIVE RegularReachIn(_, _, _)
RegularReachIn(g, root, k) ==
  IF k = 0 THEN {root} \cap DOMAIN g
  ELSE LET R == RegularReachIn(g, root, k - 1)
       IN R \cup {d \in DOMAIN g : \E n \in R : d \in g[n].dependencies}

\* C37: graph after toggle off is regular-reachable.  In the state right
\* after the visibility of dev dependencies is switched off, every node of
\* the graph is the root or is reachable from the root along regular
\* dependency edges alone.
C37_RegularReachableAfterToggleOff ==
  [][(ToggleDevDependencies /\ showDevDependencies) =>
       DOMAIN nodes' \subseteq
          RegularReachIn(nodes', rootPackage', Cardinality(Names))]_vars

\* C38: hasNoDependencies agrees with the current visibility flag.  In every
\* state, a resolved node has hasNoDependencies = TRUE exactly when it has no
\* regular dependency and dev dependencies are hidden or it has none.
C38_HasNoDependenciesAgrees ==
  \A n \in DOMAIN nodes :
     Resolved(nodes[n]) =>
       (nodes[n].hasNoDependencies <=>
          /\ nodes[n].dependencies = {}
          /\ (~showDevDependencies \/ nodes[n].devDependencies = {}))

\* ------------------------------------------------------------------------
\* Queue-based hook: properties
\* ------------------------------------------------------------------------
\* the packages a package resolves to directly, dev dependencies included;
\* the root's own edges come from the submitted manifest m
Resolves(m, n) ==
  IF n = m.name THEN m.dependencies \cup m.devDependencies
  ELSE Registry[n].dependencies \cup Registry[n].devDependencies

\* names at most k resolution hops from the root of manifest m
RECURSIVE WithinHops(_, _)
WithinHops(m, k) ==
  IF k = 0 THEN {m.name}
  ELSE LET W == WithinHops(m, k - 1)
       IN W \cup UNION {Resolves(m, n) : n \in W}

\* the deepest level the eager traversal enqueues
MaxDepth == MAX_DEPENDENCY_LEVELS - 1

\* C10: depth bound.  Every work item waiting in pendingDependencies of the
\* analysed package (everything the eager traversal fetches is taken from
\* there) carries as its level the number of resolution hops of its package
\* from the root, and that number is at most the maximum depth: with
\* app -> A -> B -> C and maximum depth 2, C is never enqueued.
C10_DepthBound ==
  hook.packageData # NullPackage =>
    \A i \in DOMAIN hook.pendingDependencies :
      LET item == hook.pendingDependencies[i]
      IN /\ item.level <= MaxDepth
         /\ item.name \in WithinHops(hook.packageData, item.level)
         /\ item.name \notin WithinHops(hook.packageData, item.level - 1)

\* the work keys waiting in pendingDependencies
PendingKeys ==
  {RequestId(hook.pendingDependencies[i].name, hook.pendingDependencies[i].version) :
     i \in DOMAIN hook.pendingDependencies}
\* the work keys dispatched in this generation and not yet completed
InFlightKeys ==
  {RequestId(requests[i].name, requests[i].version) :
     i \in {j \in DOMAIN requests : requests[j].generation = generation}}

\* C14: disjoint work sets.  Whenever the component has rendered the current
\* cells (an observation point), no work key of the analysed package is in two
\* of pendingDependencies, the in-flight set and completedDependencies; stated
\* for the first analysis after mounting, where no fetch of an earlier
\* generation can interfere.
C14_DisjointWorkSets ==
  (hook.packageData # NullPackage /\ render = hook /\ generation = 1) =>
    /\ PendingKeys \cap InFlightKeys = {}
    /\ PendingKeys \cap hook.completedDependencies = {}
    /\ InFlightKeys \cap hook.completedDependencies = {}

\* a step in which the fetch of request i settles
Settles(i) == i \in DOMAIN requests /\ requests' = RemoveAt(requests, i)
NotResolved(nd) == nd.description = "Not resolved: Package not found"
\* the regular dependencies of request q's package that are one level down,
\* within the depth limit and unknown to the closure q was dispatched with
Descent(q) ==
  {d \in Registry[q.name].dependencies :
     /\ q.level + 1 <= MaxDepth
     /\ RequestId(d, Specifier) \notin q.closure.completedDependencies
     /\ d \notin q.closure.pendingNames
     /\ d \notin q.closure.dependencyNames}

C18_FetchBound ==
  hook.packageData # NullPackage =>
    fetches <= Cardinality(WithinHops(hook.packageData, MaxDepth)
                           \ {hook.packageData.name})
\* ------------------------------------------------------------------------
\* npmService: properties
\* ------------------------------------------------------------------------
\* the target version of the call that has returned
Target == TargetVersion(data, cleanVersion(call.version))

\* the published versions with the target's major number and a
\* (minor, patch) at or above the target's
CompatibleVersions ==
  {v \in data.versions : Compatible(parseVersion(v), parseVersion(Target))}

\* numeric order of (major, minor, patch)
NumLeq(a, b) ==
  \/ a[1] < b[1]
  \/ a[1] = b[1] /\ a[2] < b[2]
  \/ a[1] = b[1] /\ a[2] = b[2] /\ a[3] <= b[3]
Lowest(S) == CHOOSE v \in S : \A w \in S : NumLeq(parseVersion(v), parseVersion(w))
Highest(S) == CHOOSE v \in S : \A w \in S : NumLeq(parseVersion(w), parseVersion(v))

\* C25: best match.  When the target version is not published and some
\* published version has the target's major number and a (minor, patch) at or
\* above the target's, fetchPackageJson returns the lowest such version.
C25_LowestCompatible ==
  (/\ call.stage = "returned"
   /\ Target.kind = "version"
   /\ Target \notin data.versions
   /\ CompatibleVersions # {})
  => outcome.version = Lowest(CompatibleVersions)

\* C26: fallback chain.  When the target version is not published and no
\* published version has its major number with a (minor, patch) at or above
\* the target's, fetchPackageJson returns the version of the 'latest' dist-tag
\* if that version is published, and the highest published version otherwise.
C26_FallbackOrder ==
  (/\ call.stage = "returned"
   /\ Target.kind = "version"
   /\ Target \notin data.versions
   /\ CompatibleVersions = {})
  => outcome.version = IF data.latest \in data.versions THEN data.latest
                       ELSE Highest(data.versions)

\* the version argument is missing, empty or 'latest'
AsksLatest(version) ==
  \/ version.body = Undefined
  \/ version.prefix = "" /\ version.body \in {Word(""), Word("latest")}

NonRegistry(version) ==
  /\ version.prefix = ""
  /\ version.body.kind = "word"
  /\ version.body.word \in NonRegistryWords

\* C28: non-registry specifiers short-circuit.  A call with such a specifier
\* makes no registry request and ends by returning a placeholder manifest
\* described as a local or external dependency.
C28_NonRegistryShortCircuit ==
  (call.stage # "idle" /\ NonRegistry(call.version)) =>
     /\ fetchCount = 0
     /\ call.stage # "thrown"
     /\ call.stage = "returned" =>
          outcome.description = "Local or external dependency"

\* the call has ended
Ended == call.stage \in {"returned", "thrown"}
\* the registry document lists no version
NoVersions == ~data.hasVersions \/ data.versions = {}

\* C29: registry error outcomes.  A call fails with the 'not found' error
\* exactly when the registry answers 404, with an error carrying the status
\* for any other answer that is not 2xx, and with the 'no versions available'
\* error when the document's versions map is missing or empty; in these cases
\* it returns no manifest and has made one request only.
C29_ErrorOutcomes ==
  Ended =>
    /\ (outcome.message = "Package x not found") <=> (data.status = 404)
    /\ (~ResponseOk(data.status) /\ data.status # 404) =>
          /\ outcome.message = "Failed to fetch package x: status"
          /\ outcome.status = data.status
    /\ (ResponseOk(data.status) /\ NoVersions) =>
          outcome.message = "No versions available for package x"
    /\ (~ResponseOk(data.status) \/ NoVersions) =>
          /\ call.stage = "thrown"
          /\ outcome.kind = "error"
          /\ fetchCount = 1

\* the registry answered 404 and the call threw the 'not found' error after
\* its single request
C29_Witness ==
  /\ call.stage = "thrown"
  /\ data.status = 404
  /\ outcome.message = "Package x not found"
  /\ fetchCount = 1

\* ------------------------------------------------------------------------
\* dependencyWorker: properties
\* ------------------------------------------------------------------------
\* the responses posted so far that carry the id
ResponsesTo(id) == SelectSeq(outbox, LAMBDA m : m.id = id)

\* C31: fetch worker protocol.  The worker posts nothing for a message whose
\* resolution has not ended and exactly one response once it has; the
\* response carries the id of the message and is FETCH_SUCCESS when
\* fetchPackageJson returned and FETCH_ERROR when it threw.
C31_OneResponsePerMessage ==
  \A id \in MessageIds :
     /\ handlers[id].stage # "done" => ResponsesTo(id) = <<>>
     /\ handlers[id].stage = "done" =>
          ResponsesTo(id) =
            <<[id |-> id,
               type |-> IF handlers[id].result = "manifest" THEN "FETCH_SUCCESS"
                        ELSE "FETCH_ERROR"]>>

\* two messages were answered out of order, one resolution threw, and a
\* third message is still being resolved
C31_Witness ==
  /\ outbox = <<[id |-> 2, type |-> "FETCH_ERROR"], [id |-> 1, type |-> "FETCH_SUCCESS"]>>
  /\ handlers[3].stage = "awaiting"

\* C35: the in-flight counter of the queue-based hook.  activeRequests is
\* never negative, never above MAX_CONCURRENT_REQUESTS, and equals the number
\* of fetches of loadSingleDependency started and not yet finished.
C35_InFlightCounter ==
  /\ hook.activeRequests >= 0
  /\ hook.activeRequests <= MAX_CONCURRENT_REQUESTS
  /\ hook.activeRequests = Len(requests)

====
